---------------------------- MODULE Spec2Model ----------------------------
(***************************************************************************)
(* Stake Transaction Processor (cryptonote_core/stake_transaction_         *)
(* processor.cpp) as a state machine.                                      *)
(*                                                                         *)
(* The processor is translated from the source.  Its collaborators that    *)
(* are not part of the translated file -- the StakeTransactionStorage      *)
(* (STS), the BlockchainBasedList (BBL), the committee selector and the    *)
(* blockchain oracle -- are modelled from the design document (spec.md     *)
(* sections 3, 4.2, 4.3, 4.4 and 6).                                       *)
(*                                                                         *)
(* Numbers are scaled down: 64 bit unsigned arithmetic is arithmetic       *)
(* modulo UINT64_MOD, and the domain parameters of graft_rta_config.h are  *)
(* small values that keep their order relations.                           *)
(***************************************************************************)
EXTENDS Integers, Sequences, FiniteSets, TLC

VARIABLES
  chain,   \* the oracle's canonical chain: chain[i+1] is the body of block i
  hf,      \* the oracle's hard fork table for the stake processing version
  stp,     \* the StakeTransactionProcessor object
  last,    \* the last operation, its inputs and what it did (observation)
  scn,     \* bookkeeping of the run: which scenario the run so far is
  thr      \* the threads inside the processor and the owners of the two locks

vars == <<chain, hf, stp, last, scn, thr>>

---------------------------------------------------------------------------
(* Bounds of the model *)

\* the oracle never holds more than MaxHeight blocks (genesis included)
MaxHeight == 4
\* nor, while observers are registered and called, more than ObsHeight
ObsHeight == 3

(* Domain parameters, scaled *)

UINT64_MOD == 16
STAKE_TRANSACTION_PROCESSING_DB_VERSION == 2
STAKE_VALIDATION_PERIOD == 1
TRUSTED_RESTAKING_PERIOD == 1
STAKE_MIN_UNLOCK_TIME == 1
STAKE_MAX_UNLOCK_TIME == 2
SUPERNODE_HISTORY_SIZE == 2
MAX_ITERATIONS_COUNT == 2
REQUIRED_BBQS_VOTES == 2
REQUIRED_DISQUAL2_VOTES == 1
TIERS == 2
\* committee sizes and the stake a supernode needs for the second tier
BBQS_SIZE == 2
QCL_SIZE == 1
AUTH_SAMPLE_SIZE == 2
TIER2_STAKE == 2

\* supernode identifiers; 0 stands for a string that is no valid public key
Ids == {1, 2, 3}

Min(a, b) == IF a < b THEN a ELSE b

\* a - b as the machine computes it on uint64_t / size_t
USub(a, b) == (a - b + UINT64_MOD) % UINT64_MOD
UAdd(a, b) == (a + b) % UINT64_MOD

---------------------------------------------------------------------------
(* Transactions and blocks the oracle can hold *)

NoDisq == [parse_ok |-> FALSE, check_ok |-> FALSE, block_height |-> 0,
           block_hash |-> <<>>, id |-> 0, ids |-> <<>>, payment_id |-> 0,
           signers |-> <<>>]

\* a transaction that carries no stake record and no disqualification
PlainTx(h) ==
  [hash |-> h, version |-> 2, has_stake_extra |-> FALSE, throws |-> FALSE,
   supernode_public_id |-> 0, signature_ok |-> FALSE, unlock_time |-> 0,
   amount |-> 0, disq |-> NoDisq]

StakeTx(h, id, amount, unlock) ==
  [PlainTx(h) EXCEPT !.has_stake_extra = TRUE, !.supernode_public_id = id,
                     !.signature_ok = TRUE, !.amount = amount,
                     !.unlock_time = unlock]

DisqTx(h, version, d) == [PlainTx(h) EXCEPT !.version = version, !.disq = d]

\* stake transactions
T1     == StakeTx(1, 1, 1, 3)
T2     == StakeTx(2, 2, 2, 4)
T3     == StakeTx(3, 3, 1, 3)
T1b    == StakeTx(13, 1, 2, 4)     \* a second stake of supernode 1
TWrap  == StakeTx(4, 1, 1, 0)      \* unlock_time below every block index >= 1
TZero  == StakeTx(5, 2, 0, 3)      \* no output pays the supernode address
TBadId == StakeTx(6, 0, 1, 3)      \* hex_to_pod / check_key fails
TBadSig == [StakeTx(7, 2, 1, 3) EXCEPT !.signature_ok = FALSE]
TThrow == [StakeTx(8, 2, 1, 3) EXCEPT !.throws = TRUE]
TPlain == PlainTx(9)

\* disqualification transactions found in blocks: both parse, neither would
\* pass validation (no signer at all; an id that is no supernode)
TDisq  == DisqTx(10, 123,
            [NoDisq EXCEPT !.parse_ok = TRUE, !.check_ok = TRUE,
                           !.block_height = 1, !.block_hash = <<0, 0>>,
                           !.id = 1])
TDisq2 == DisqTx(11, 124,
            [NoDisq EXCEPT !.parse_ok = TRUE, !.check_ok = TRUE,
                           !.block_height = 1, !.block_hash = <<0, 0>>,
                           !.ids = <<3>>, !.payment_id = 0,
                           !.signers = <<1>>])
TDisqBad == DisqTx(12, 123, NoDisq) \* graft_get_disqualification fails

\* block bodies by kind: 0 is the empty block, 1 the block with the stake
\* transactions, 2 the block with the disqualifications
BlockTxs(kind) ==
  CASE kind = 1 -> <<TPlain, TBadId, T1, TWrap, TZero, TBadSig, T2, TThrow,
                     T1b, T3>>
    [] kind = 2 -> <<TDisqBad, TDisq, TDisq2>>
    [] OTHER    -> <<>>

AllTxs == {T1, T2, T3, T1b, TWrap, TZero, TBadId, TBadSig, TThrow, TPlain,
           TDisq, TDisq2, TDisqBad}

TxByHash(h) == CHOOSE t \in AllTxs : t.hash = h

---------------------------------------------------------------------------
(* The blockchain oracle (spec.md section 6) *)

NoFault == [kind |-> "none", at |-> 0]

\* the oracle as one call of the processor sees it: the chain, the hard fork
\* table and the fault the oracle shows during the call
Oracle(c, h, f) == [chain |-> c, hf |-> h, fault |-> f]

get_current_blockchain_height(o) == Len(o.chain)

\* a block's hash commits to the block and to all its ancestors
block_hash_of(c, i) == SubSeq(c, 1, i + 1)

\* get_block_id_by_height: the hash, or BLOCK_DNE
get_block_id_by_height(o, i) ==
  IF i >= Len(o.chain) \/ (o.fault.kind = "dne" /\ o.fault.at = i)
  THEN [dne |-> TRUE, hash |-> <<>>]
  ELSE [dne |-> FALSE, hash |-> block_hash_of(o.chain, i)]

\* get_block_by_hash(hash of block i, block): FALSE when the body is missing
get_block_by_hash(o, i) ==
  [found |-> ~(o.fault.kind = "nobody" /\ o.fault.at = i),
   txs   |-> BlockTxs(o.chain[i + 1])]

\* get_transactions(block.tx_hashes, txs, missed): FALSE on failure
get_transactions(o, i) == ~(o.fault.kind = "notxs" /\ o.fault.at = i)

get_hard_fork_version(o, i) ==
  IF i >= o.hf.actual THEN STAKE_TRANSACTION_PROCESSING_DB_VERSION
  ELSE STAKE_TRANSACTION_PROCESSING_DB_VERSION - 1

get_earliest_ideal_height_for_version(o) == o.hf.ideal

---------------------------------------------------------------------------
(* stake_transaction::is_valid *)

is_valid(s, block_index) ==
  LET stake_first_valid_block == UAdd(s.block_height, STAKE_VALIDATION_PERIOD)
      stake_last_valid_block  ==
        UAdd(UAdd(s.block_height, s.unlock_time), TRUSTED_RESTAKING_PERIOD)
  IN  IF block_index < stake_first_valid_block THEN FALSE
      ELSE IF block_index >= stake_last_valid_block THEN FALSE
      ELSE TRUE

---------------------------------------------------------------------------
(* StakeTransactionStorage (spec.md sections 3 and 4.3) *)

EmptyContent == [txs |-> <<>>, disquals |-> <<>>, disquals2 |-> <<>>,
                 chain |-> <<>>]

\* the absent storage (m_storage holds no object)
NullStorage ==
  [present |-> FALSE, first |-> 0, txs |-> <<>>, disquals |-> <<>>,
   disquals2 |-> <<>>, chain |-> <<>>, cached |-> {}, stakes |-> {},
   need_store |-> FALSE, disk |-> EmptyContent, log |-> <<>>]

\* StakeTransactionStorage(file, first_block_number): no file yet
NewStorage(first_block_number) ==
  [NullStorage EXCEPT !.present = TRUE, !.first = first_block_number]

StorageContent(s) == [txs |-> s.txs, disquals |-> s.disquals,
                      disquals2 |-> s.disquals2, chain |-> s.chain]

has_last_processed_block(s) == s.chain # <<>>

get_last_processed_block_index(s) ==
  IF s.chain = <<>> THEN s.first ELSE s.chain[Len(s.chain)].idx

get_last_processed_block_hash(s) == s.chain[Len(s.chain)].hash

get_tx_count(s) == Len(s.txs)

Storage_need_store(s) == s.need_store

Storage_store(s) == [s EXCEPT !.disk = StorageContent(s), !.need_store = FALSE]

\* append; a second insert of the same tx_hash is ignored
add_tx(s, stake_tx) ==
  IF \E k \in 1..Len(s.txs) : s.txs[k].hash = stake_tx.hash THEN s
  ELSE [s EXCEPT !.txs = Append(@, stake_tx), !.need_store = TRUE]

add_disquals(s, batch) ==
  IF batch = <<>> THEN s
  ELSE [s EXCEPT !.disquals = @ \o batch, !.need_store = TRUE]

add_disquals2(s, batch) ==
  IF batch = <<>> THEN s
  ELSE [s EXCEPT !.disquals2 = @ \o batch, !.need_store = TRUE]

add_last_processed_block(s, idx, hash) ==
  [s EXCEPT !.chain = Append(@, [idx |-> idx, hash |-> hash]),
            !.need_store = TRUE]

\* pop the tip and everything recorded at its index
remove_last_processed_block(s) ==
  IF s.chain = <<>> THEN s
  ELSE LET idx == s.chain[Len(s.chain)].idx
       IN [s EXCEPT
             !.chain      = SubSeq(@, 1, Len(@) - 1),
             !.txs        = SelectSeq(@, LAMBDA t : t.block_height # idx),
             !.disquals   = SelectSeq(@, LAMBDA d : d.block_index # idx),
             !.disquals2  = SelectSeq(@, LAMBDA d : d.block_index # idx),
             !.need_store = TRUE]

clear_supernode_stakes(s) == [s EXCEPT !.cached = {}, !.stakes = {}]

RECURSIVE StakeSum(_, _, _, _)
\* the amounts of txs[1..k] that are valid at b and belong to id, added up
StakeSum(txs, k, id, b) ==
  IF k = 0 THEN 0
  ELSE StakeSum(txs, k - 1, id, b)
       + (IF txs[k].supernode_public_id = id /\ is_valid(txs[k], b)
          THEN txs[k].amount ELSE 0)

HasStake(txs, id, b) ==
  \E k \in 1..Len(txs) : txs[k].supernode_public_id = id /\ is_valid(txs[k], b)

\* rebuild the stake index at block_index from txs
update_supernode_stakes(s, block_index) ==
  [s EXCEPT
     !.cached = @ \cup {block_index},
     !.stakes = {e \in @ : e.block # block_index}
                \cup {[block |-> block_index, id |-> i,
                       amount |-> StakeSum(s.txs, Len(s.txs), i, block_index)]
                      : i \in {j \in Ids : HasStake(s.txs, j, block_index)}}]

\* the index at block_index, computed when it is first asked for
WithStakesAt(s, block_index) ==
  IF block_index \in s.cached THEN s
  ELSE update_supernode_stakes(s, block_index)

NoStake == [found |-> FALSE, amount |-> 0]

LookupStake(s, b, id) ==
  IF \E e \in s.stakes : e.block = b /\ e.id = id
  THEN [found |-> TRUE,
        amount |-> (CHOOSE e \in s.stakes : e.block = b /\ e.id = id).amount]
  ELSE NoStake

Storage_find_supernode_stake(s, b, id) ==
  LET s2 == WithStakesAt(s, b)
  IN  [storage |-> s2, result |-> LookupStake(s2, b, id)]

\* get_supernode_stakes: the view of the index at block_index that is handed
\* to the stakes observer
get_supernode_stakes(s, block_index) ==
  {e \in WithStakesAt(s, block_index).stakes : e.block = block_index}

---------------------------------------------------------------------------
(* BlockchainBasedList (spec.md sections 3 and 4.4) *)

NullList == [present |-> FALSE, first |-> 0, history |-> <<>>,
             need_store |-> FALSE, disk |-> <<>>]

NewList(first_block_number) ==
  [NullList EXCEPT !.present = TRUE, !.first = first_block_number]

\* the index of the tip; the seed while no snapshot is held
block_height(l) ==
  IF l.history = <<>> THEN l.first ELSE l.history[Len(l.history)].idx

history_depth(l) == Min(Len(l.history), SUPERNODE_HISTORY_SIZE)

\* the snapshot at depth (0 = tip)
tiers(l, depth) == l.history[Len(l.history) - depth].tiers

List_need_store(l) == l.need_store

List_store(l) == [l EXCEPT !.disk = l.history, !.need_store = FALSE]

IdSeq == <<1, 2, 3>>

Disqualified(s, id, idx) ==
  \/ \E k \in 1..Len(s.disquals) :
       s.disquals[k].id = id /\ s.disquals[k].block_index <= idx
  \/ \E k \in 1..Len(s.disquals2) :
       /\ s.disquals2[k].block_index <= idx
       /\ \E j \in 1..Len(s.disquals2[k].blob.ids) :
            s.disquals2[k].blob.ids[j] = id

TierOf(amount) == IF amount >= TIER2_STAKE THEN 2 ELSE 1

RECURSIVE TierEntries(_, _, _, _)
\* tier t of the roster at idx: the supernodes IdSeq[1..k] with a valid stake
\* that are not disqualified, in the order of their ids
TierEntries(s, idx, t, k) ==
  IF k = 0 THEN <<>>
  ELSE LET id  == IdSeq[k]
           sum == StakeSum(s.txs, Len(s.txs), id, idx)
       IN  TierEntries(s, idx, t, k - 1)
           \o (IF HasStake(s.txs, id, idx) /\ ~Disqualified(s, id, idx)
                  /\ TierOf(sum) = t
               THEN <<[supernode_public_id |-> id, stake_amount |-> sum]>>
               ELSE <<>>)

BuildTiers(s, idx) == [t \in 1..TIERS |-> TierEntries(s, idx, t, Len(IdSeq))]

\* the history with one more snapshot; the oldest one falls out of the window
pushed(history, snapshot) ==
  IF Len(history) + 1 > SUPERNODE_HISTORY_SIZE
  THEN SubSeq(Append(history, snapshot),
              Len(history) + 2 - SUPERNODE_HISTORY_SIZE, Len(history) + 1)
  ELSE Append(history, snapshot)

\* push the snapshot of block idx.  A block at or below the tip is already
\* applied: the list does not grow.
apply_block(l, idx, hash, s) ==
  IF idx <= block_height(l) THEN l
  ELSE [l EXCEPT
          !.history = pushed(@, [idx |-> idx, hash |-> hash,
                                 tiers |-> BuildTiers(s, idx)]),
          !.need_store = TRUE]

remove_latest_block(l) ==
  IF l.history = <<>> THEN l
  ELSE [l EXCEPT !.history = SubSeq(@, 1, Len(@) - 1), !.need_store = TRUE]

---------------------------------------------------------------------------
(* Committee selection (spec.md section 4.2) and its helpers *)

\* makeBBLindexes: per tier the pairs <<tier, index in the tier>>
makeBBLindexes(bbl_tiers) ==
  [t \in 1..TIERS |-> [i \in 1..Len(bbl_tiers[t]) |-> <<t, i>>]]

\* fromIndexes: the supernode ids the pairs select
fromIndexes(bbl_tiers, idxs) ==
  [k \in 1..Len(idxs) |-> bbl_tiers[idxs[k][1]][idxs[k][2]].supernode_public_id]

RECURSIVE Flatten(_, _)
Flatten(bbl_idxs, t) ==
  IF t = 0 THEN <<>> ELSE Flatten(bbl_idxs, t - 1) \o bbl_idxs[t]

RECURSIVE SeqSum(_)
SeqSum(q) == IF q = <<>> THEN 0 ELSE Head(q) + SeqSum(Tail(q))

Rotate(q, n) ==
  IF q = <<>> THEN q
  ELSE LET r == n % Len(q) IN SubSeq(q, r + 1, Len(q)) \o SubSeq(q, 1, r)

\* the seeded stream of a block hash
HashSeed(hash) == SeqSum(hash) + Len(hash)

\* select_BBQS_QCL(block_hash, bbl_idxs, bbqs_idxs, qcl_idxs)
select_BBQS_QCL(block_hash, bbl_idxs) ==
  LET all == Rotate(Flatten(bbl_idxs, TIERS), HashSeed(block_hash))
      nb  == Min(BBQS_SIZE, Len(all))
      nq  == Min(QCL_SIZE, Len(all) - nb)
  IN  [bbqs |-> SubSeq(all, 1, nb), qcl |-> SubSeq(all, nb + 1, nb + nq)]

\* select_AuthSample(payment_id, bbl_idxs, auths_idxs)
select_AuthSample(payment_id, bbl_idxs) ==
  LET all == Rotate(Flatten(bbl_idxs, TIERS), payment_id)
  IN  SubSeq(all, 1, Min(AUTH_SAMPLE_SIZE, Len(all)))

Range(q) == {q[k] : k \in 1..Len(q)}

---------------------------------------------------------------------------
(* StakeTransactionProcessor *)

\* StakeTransactionProcessor(blockchain): no storages, no handlers, both
\* need-update flags set
InitStp ==
  [m_storage |-> NullStorage,
   m_blockchain_based_list |-> NullList,
   m_stakes_need_update |-> TRUE,
   m_blockchain_based_list_need_update |-> TRUE,
   m_on_stakes_update |-> FALSE,
   m_on_blockchain_based_list_update |-> FALSE,
   m_config_dir |-> ""]

\* bookkeeping: the calls the processor makes on its storages during one
\* synchronize, in their order, kept with the storage record s
Logged(s, ev, idx) == [s EXCEPT !.log = Append(@, [ev |-> ev, idx |-> idx])]

\* find_supernode_stake(block_number, supernode_public_id)
find_supernode_stake(p, block_number, supernode_public_id) ==
  IF ~p.m_storage.present THEN [stp |-> p, result |-> NoStake]
  ELSE LET r == Storage_find_supernode_stake(p.m_storage, block_number,
                                             supernode_public_id)
       IN  [stp |-> [p EXCEPT !.m_storage = r.storage], result |-> r.result]

\* get_transaction_amount: what the outputs that pay the supernode address
\* decode to (0 on any failure)
get_transaction_amount(tx) == tx.amount

\* init_storages(config_dir); raised: a storage exists already
\* (std::runtime_error)
init_storages(p, config_dir) ==
  IF p.m_storage.present \/ p.m_blockchain_based_list.present
  THEN [stp |-> p, raised |-> TRUE]
  ELSE [stp |-> [p EXCEPT !.m_config_dir = config_dir], raised |-> FALSE]

\* the block the storages are seeded with
first_block_number_of(o) ==
  IF get_earliest_ideal_height_for_version(o) # 0
  THEN get_earliest_ideal_height_for_version(o) - 1
  ELSE get_earliest_ideal_height_for_version(o)

\* init_storages_impl: both storages are created, seeded with the first block
\* number; raised: a storage exists already (std::runtime_error)
init_storages_impl(p, o) ==
  IF p.m_storage.present \/ p.m_blockchain_based_list.present
  THEN [stp |-> p, raised |-> TRUE]
  ELSE [stp |-> [p EXCEPT
                   !.m_storage = NewStorage(first_block_number_of(o)),
                   !.m_blockchain_based_list = NewList(first_block_number_of(o))],
        raised |-> FALSE]

\* the committee check without the signers
qcl_bbqs_accept_any_signer(ts, sel, d) ==
  IF \A k \in 1..Len(sel.qcl) : fromIndexes(ts, sel.qcl)[k] # d.id
  THEN "rejected"
  ELSE "accepted"

\* the end of check_disqualification_transaction: the disqualified id is in
\* the QCL and every signer in the BBQS; sel holds the selected indexes
qcl_bbqs_accept(ts, sel, d) ==
  IF \A k \in 1..Len(sel.qcl) : fromIndexes(ts, sel.qcl)[k] # d.id
  THEN "rejected"
  ELSE IF \E j \in 1..Len(d.signers) :
            \A k \in 1..Len(sel.bbqs) :
              fromIndexes(ts, sel.bbqs)[k] # d.signers[j]
  THEN "rejected"
  ELSE "accepted"

\* check_disqualification_transaction: "accepted", "rejected", "raised" when
\* BLOCK_DNE leaves the function, "fault" when it reads through the absent
\* m_blockchain_based_list
check_disqualification_transaction(p, o, tx) ==
  IF ~(tx.disq.parse_ok /\ tx.disq.check_ok) THEN "rejected"
  ELSE IF get_block_id_by_height(o, tx.disq.block_height).dne THEN "raised"
  ELSE IF get_block_id_by_height(o, tx.disq.block_height).hash
            # tx.disq.block_hash
  THEN "rejected"
  ELSE IF ~p.m_blockchain_based_list.present THEN "fault"
  ELSE IF history_depth(p.m_blockchain_based_list)
            <= USub(block_height(p.m_blockchain_based_list),
                    tx.disq.block_height)
  THEN "rejected"
  ELSE IF Len(tx.disq.signers) < REQUIRED_BBQS_VOTES THEN "rejected"
  ELSE qcl_bbqs_accept(
         tiers(p.m_blockchain_based_list,
               USub(block_height(p.m_blockchain_based_list),
                    tx.disq.block_height)),
         select_BBQS_QCL(tx.disq.block_hash,
           makeBBLindexes(
             tiers(p.m_blockchain_based_list,
                   USub(block_height(p.m_blockchain_based_list),
                        tx.disq.block_height)))),
         tx.disq)

\* the end of check_disqualification2_transaction: the disqualified ids and
\* the signers are in the auth sample
auth_sample_accept(auths, d) ==
  IF \E j \in 1..Len(d.ids) : \A k \in 1..Len(auths) : auths[k] # d.ids[j]
  THEN "rejected"
  ELSE IF \E j \in 1..Len(d.signers) :
            \A k \in 1..Len(auths) : auths[k] # d.signers[j]
  THEN "rejected"
  ELSE "accepted"

\* the ids of the auth sample of a snapshot
auth_sample(ts, payment_id) ==
  fromIndexes(ts, select_AuthSample(payment_id, makeBBLindexes(ts)))

\* check_disqualification2_transaction
check_disqualification2_transaction(p, o, tx) ==
  IF ~(tx.disq.parse_ok /\ tx.disq.check_ok) THEN "rejected"
  ELSE IF get_block_id_by_height(o, tx.disq.block_height).dne THEN "raised"
  ELSE IF get_block_id_by_height(o, tx.disq.block_height).hash
            # tx.disq.block_hash
  THEN "rejected"
  ELSE IF ~p.m_blockchain_based_list.present THEN "fault"
  ELSE IF history_depth(p.m_blockchain_based_list)
            <= USub(block_height(p.m_blockchain_based_list),
                    tx.disq.block_height)
  THEN "rejected"
  ELSE IF Len(tx.disq.signers) < REQUIRED_DISQUAL2_VOTES THEN "rejected"
  ELSE auth_sample_accept(
         auth_sample(
           tiers(p.m_blockchain_based_list,
                 USub(block_height(p.m_blockchain_based_list),
                      tx.disq.block_height)),
           tx.disq.payment_id),
         tx.disq)

\* process_disqualification_transaction: the batch with the entry pushed
process_disqualification_transaction(tx, block_index, disquals) ==
  IF ~tx.disq.parse_ok THEN disquals
  ELSE Append(disquals, [blob |-> tx.disq, block_index |-> block_index,
                         id |-> tx.disq.id])

\* process_disqualification2_transaction
process_disqualification2_transaction(tx, block_index, disquals2) ==
  IF ~tx.disq.parse_ok THEN disquals2
  ELSE Append(disquals2, [blob |-> tx.disq, block_index |-> block_index])

\* the window without its upper end
unlock_time_allowed_no_max(unlock_time) ==
  ~(unlock_time < STAKE_MIN_UNLOCK_TIME)

\* the unlock time window of a stake transaction
unlock_time_allowed(unlock_time) ==
  ~(unlock_time < STAKE_MIN_UNLOCK_TIME) /\ ~(unlock_time > STAKE_MAX_UNLOCK_TIME)

\* the body of the loop over the block's transactions.  acc holds the storage
\* and the two batches of disqualifications
process_transaction(acc, tx, block_index) ==
  IF tx.throws THEN acc
  ELSE IF tx.version = 123 THEN
    [acc EXCEPT
       !.disquals  = process_disqualification_transaction(tx, block_index, @)]
  ELSE IF tx.version = 124 THEN
    [acc EXCEPT
       !.disquals2 = process_disqualification2_transaction(tx, block_index, @)]
  ELSE IF ~tx.has_stake_extra THEN acc
  ELSE IF tx.supernode_public_id = 0 THEN acc
  ELSE IF ~tx.signature_ok THEN acc
  ELSE IF ~unlock_time_allowed(USub(tx.unlock_time, block_index)) THEN acc
  ELSE IF get_transaction_amount(tx) = 0 THEN acc
  ELSE [acc EXCEPT !.storage = Logged(add_tx(@,
          [supernode_public_id |-> tx.supernode_public_id,
           amount       |-> get_transaction_amount(tx),
           block_height |-> block_index,
           hash         |-> tx.hash,
           unlock_time  |-> USub(tx.unlock_time, block_index)]),
          "add_tx", block_index)]

RECURSIVE process_transactions_until_failure(_, _, _, _)
\* the loop left at the first transaction that adds nothing
process_transactions_until_failure(acc, txs, k, block_index) ==
  IF k > Len(txs) THEN acc
  ELSE IF process_transaction(acc, txs[k], block_index) = acc THEN acc
  ELSE process_transactions_until_failure(
         process_transaction(acc, txs[k], block_index), txs, k + 1, block_index)

RECURSIVE process_transactions(_, _, _, _)
\* the loop over the transactions of the block, from the k-th on
process_transactions(acc, txs, k, block_index) ==
  IF k > Len(txs) THEN acc
  ELSE process_transactions(process_transaction(acc, txs[k], block_index),
                            txs, k + 1, block_index)

\* the batches go into the storage; the stake index is left as it is
commit_block_no_stake_update(acc, block_index) ==
  Logged(
    add_disquals2(
      Logged(add_disquals(acc.storage, acc.disquals), "add_disquals", block_index),
      acc.disquals2),
    "add_disquals2", block_index)

\* the batches go into the storage and the stake index of the block is built
commit_block(acc, block_index) ==
  Logged(
    update_supernode_stakes(
      Logged(
        add_disquals2(
          Logged(add_disquals(acc.storage, acc.disquals),
                 "add_disquals", block_index),
          acc.disquals2),
        "add_disquals2", block_index),
      block_index),
    "update_supernode_stakes", block_index)

\* the end of process_block_stake_transaction: the block is recorded as
\* processed and the storage stored on demand
finish_block(s, block_index, block_hash, update_storage) ==
  IF update_storage
  THEN Storage_store(
         Logged(add_last_processed_block(s, block_index, block_hash),
                "add_last_processed_block", block_index))
  ELSE Logged(add_last_processed_block(s, block_index, block_hash),
              "add_last_processed_block", block_index)

\* process_block_stake_transaction without the guard on the block index
process_block_stake_transaction_unguarded(p, o, block_index, txs, block_hash, update_storage) ==
  IF get_hard_fork_version(o, block_index)
       < STAKE_TRANSACTION_PROCESSING_DB_VERSION
  THEN [p EXCEPT !.m_storage =
          finish_block(@, block_index, block_hash, update_storage)]
  ELSE IF ~get_transactions(o, block_index) THEN p
  ELSE [p EXCEPT
          !.m_storage = finish_block(
             commit_block(
               process_transactions(
                 [storage |-> p.m_storage, disquals |-> <<>>, disquals2 |-> <<>>],
                 txs, 1, block_index),
               block_index),
             block_index, block_hash, update_storage),
          !.m_stakes_need_update = TRUE]

\* process_block_stake_transaction
process_block_stake_transaction(p, o, block_index, txs, block_hash, update_storage) ==
  IF block_index <= get_last_processed_block_index(p.m_storage) THEN p
  ELSE IF get_hard_fork_version(o, block_index)
            < STAKE_TRANSACTION_PROCESSING_DB_VERSION
  THEN [p EXCEPT !.m_storage =
          finish_block(@, block_index, block_hash, update_storage)]
  ELSE IF ~get_transactions(o, block_index) THEN p
  ELSE [p EXCEPT
          !.m_storage = finish_block(
             commit_block(
               process_transactions(
                 [storage |-> p.m_storage, disquals |-> <<>>, disquals2 |-> <<>>],
                 txs, 1, block_index),
               block_index),
             block_index, block_hash, update_storage),
          !.m_stakes_need_update = TRUE]

\* the end of process_block_blockchain_based_list, l being the list after
\* apply_block
list_applied(p, l, prev_block_height, update_storage) ==
  IF List_need_store(l) \/ prev_block_height # block_height(l)
  THEN [p EXCEPT
          !.m_blockchain_based_list = IF update_storage THEN List_store(l) ELSE l,
          !.m_blockchain_based_list_need_update = TRUE]
  ELSE [p EXCEPT !.m_blockchain_based_list = l]

\* process_block_blockchain_based_list
process_block_blockchain_based_list(p, block_index, block_hash, update_storage) ==
  list_applied(
    [p EXCEPT !.m_storage = Logged(@, "apply_block", block_index)],
    apply_block(p.m_blockchain_based_list, block_index, block_hash, p.m_storage),
    block_height(p.m_blockchain_based_list), update_storage)

\* process_block
\* process_block with the two storages fed in the opposite order
process_block_list_first(p, o, block_index, txs, block_hash, update_storage) ==
  process_block_stake_transaction(
    process_block_blockchain_based_list(p, block_index, block_hash,
                                        update_storage),
    o, block_index, txs, block_hash, update_storage)

process_block(p, o, block_index, txs, block_hash, update_storage) ==
  process_block_blockchain_based_list(
    process_block_stake_transaction(p, o, block_index, txs, block_hash,
                                    update_storage),
    block_index, block_hash, update_storage)

---------------------------------------------------------------------------
(* Observers.  A handler slot holds a function or is empty; what the         *)
(* registered function does when it is called is an input of the call:      *)
(* h.s is the outcome of the stakes handler, h.b the outcome of the h.bat-th*)
(* call of the list handler ("ok", "std" for a std::exception, "other" for  *)
(* anything else thrown).                                                   *)

HandlersOk == [s |-> "ok", b |-> "ok", bat |-> 0]

NoCalls(p) == [stp |-> p, scalls |-> <<>>, bcalls |-> <<>>, escaped |-> FALSE]

\* invoke_update_stakes_handler_impl(block_index)
invoke_update_stakes_handler_impl(p, block_index, h) ==
  IF ~p.m_storage.present THEN NoCalls(p)
  ELSE LET call == <<[block_index |-> block_index,
                      stakes |-> get_supernode_stakes(p.m_storage, block_index)]>>
       IN  CASE h.s = "ok" ->
                  [NoCalls([p EXCEPT !.m_stakes_need_update = FALSE])
                     EXCEPT !.scalls = call]
             [] h.s = "std" -> [NoCalls(p) EXCEPT !.scalls = call]
             [] OTHER -> [NoCalls(p) EXCEPT !.scalls = call, !.escaped = TRUE]

\* the handler called whether or not the stakes need an update
invoke_update_stakes_handler_always(p, o, force, h) ==
  IF ~p.m_on_stakes_update THEN NoCalls(p)
  ELSE invoke_update_stakes_handler_impl(p,
         USub(get_current_blockchain_height(o), 1), h)

\* invoke_update_stakes_handler(force)
invoke_update_stakes_handler(p, o, force, h) ==
  IF ~p.m_on_stakes_update THEN NoCalls(p)
  ELSE IF ~p.m_stakes_need_update /\ ~force THEN NoCalls(p)
  ELSE invoke_update_stakes_handler_impl(p,
         USub(get_current_blockchain_height(o), 1), h)

RECURSIVE list_handler_calls(_, _, _, _, _, _)
\* the loop over the snapshots from depth i on: the calls made, and how the
\* loop ended ("ok", or the kind of what was thrown)
list_handler_calls(l, o, h, height, i, depth) ==
  IF ~(i < depth) THEN [calls |-> <<>>, ended |-> "ok"]
  ELSE LET bh   == USub(height, i)
           b    == get_block_id_by_height(o, bh)
           call == [block_height |-> bh, block_hash |-> b.hash, depth |-> i,
                    tiers |-> tiers(l, i)]
           rest == list_handler_calls(l, o, h, height, i + 1, depth)
       IN  IF b.dne THEN [calls |-> <<>>, ended |-> "std"]
           ELSE IF h.b # "ok" /\ h.bat = i + 1
                THEN [calls |-> <<call>>, ended |-> h.b]
           ELSE [calls |-> <<call>> \o rest.calls, ended |-> rest.ended]

\* invoke_update_blockchain_based_list_handler_impl(depth)
invoke_update_blockchain_based_list_handler_impl(p, o, depth, h) ==
  LET l  == p.m_blockchain_based_list
      d1 == IF depth > history_depth(l) THEN history_depth(l) ELSE depth
      d2 == IF d1 > SUPERNODE_HISTORY_SIZE THEN SUPERNODE_HISTORY_SIZE ELSE d1
      r  == list_handler_calls(l, o, h, block_height(l), 0, d2)
  IN  IF ~l.present THEN NoCalls(p)
      ELSE IF block_height(l) = 0 THEN NoCalls(p)
      ELSE CASE r.ended = "ok" ->
                  [NoCalls([p EXCEPT !.m_blockchain_based_list_need_update = FALSE])
                     EXCEPT !.bcalls = r.calls]
             [] r.ended = "std" -> [NoCalls(p) EXCEPT !.bcalls = r.calls]
             [] OTHER -> [NoCalls(p) EXCEPT !.bcalls = r.calls, !.escaped = TRUE]

\* invoke_update_blockchain_based_list_handler(force, depth)
invoke_update_blockchain_based_list_handler(p, o, force, depth, h) ==
  IF ~p.m_on_blockchain_based_list_update THEN NoCalls(p)
  ELSE IF ~p.m_blockchain_based_list_need_update /\ ~(force \/ depth > 1)
       THEN NoCalls(p)
  ELSE invoke_update_blockchain_based_list_handler_impl(p, o, depth, h)

---------------------------------------------------------------------------
(* synchronize *)

\* the check of the height alone
synchronize_enters_height_only(o) ==
  ~(get_current_blockchain_height(o) = 0)

\* the check of the height and of the hard fork version of the top block
synchronize_enters(o) ==
  LET height == get_current_blockchain_height(o)
  IN  ~(height = 0
        \/ get_hard_fork_version(o, height - 1)
             < STAKE_TRANSACTION_PROCESSING_DB_VERSION)

\* the comparison skipped for the block right below the oracle's height
tail_probed_off_by_one(last_processed_block_index, height) ==
  last_processed_block_index + 1 < height

\* the tip of the processed chain is compared with the oracle only when it
\* lies below the oracle's height
tail_probed(last_processed_block_index, height) ==
  last_processed_block_index < height

RECURSIVE unroll(_, _, _)
\* unroll already processed blocks for alternative chains; dne: the oracle
\* signalled BLOCK_DNE for the probed block
unroll(p, o, height) ==
  LET s == p.m_storage IN
  IF ~has_last_processed_block(s) THEN [stp |-> p, dne |-> FALSE]
  ELSE
    LET stake_tx_count == get_tx_count(s)
        last_processed_block_index == get_last_processed_block_index(s)
        probe == get_block_id_by_height(o, last_processed_block_index)
        s1 == Logged(remove_last_processed_block(s),
                     "remove_last_processed_block", last_processed_block_index)
        l  == p.m_blockchain_based_list
        s2 == IF block_height(l) = last_processed_block_index
              THEN Logged(IF stake_tx_count # get_tx_count(s1)
                          THEN clear_supernode_stakes(s1) ELSE s1,
                          "remove_latest_block", last_processed_block_index)
              ELSE IF stake_tx_count # get_tx_count(s1)
                   THEN clear_supernode_stakes(s1) ELSE s1
        l1 == IF block_height(l) = last_processed_block_index
              THEN remove_latest_block(l) ELSE l
    IN  IF tail_probed(last_processed_block_index, height) /\ probe.dne
        THEN [stp |-> p, dne |-> TRUE]
        ELSE IF tail_probed(last_processed_block_index, height)
                /\ get_last_processed_block_hash(s) = probe.hash
        THEN [stp |-> p, dne |-> FALSE]
        ELSE unroll([p EXCEPT !.m_storage = s2,
                              !.m_blockchain_based_list = l1], o, height)

\* what one iteration of the loop over the new blocks does with the block it
\* was handed: b is the answer of get_block_id_by_height
block_step(o, last_block_index, b) ==
  IF b.dne THEN "break"
  ELSE IF ~get_block_by_hash(o, last_block_index).found THEN "throw"
  ELSE "next"

RECURSIVE apply_new_blocks(_, _, _, _)
\* the loop over the new blocks from last_block_index on; threw: the body of a
\* block was not found (std::runtime_error)
apply_new_blocks(p, o, last_block_index, last_block_index_for_sync) ==
  IF ~(last_block_index < last_block_index_for_sync)
  THEN [stp |-> p, last_block_index |-> last_block_index, threw |-> FALSE]
  ELSE
    CASE block_step(o, last_block_index,
                    get_block_id_by_height(o, last_block_index)) = "break" ->
           [stp |-> p, last_block_index |-> last_block_index, threw |-> FALSE]
      [] block_step(o, last_block_index,
                    get_block_id_by_height(o, last_block_index)) = "throw" ->
           [stp |-> p, last_block_index |-> last_block_index, threw |-> TRUE]
      [] OTHER ->
           apply_new_blocks(
             process_block(p, o, last_block_index,
                           get_block_by_hash(o, last_block_index).txs,
                           get_block_id_by_height(o, last_block_index).hash,
                           FALSE),
             o, last_block_index + 1, last_block_index_for_sync)

\* the start of the loop taken from the stake storage alone, without the
\* step back to the list of lines 607-608
first_block_index_past_stakes(p) ==
  UAdd(get_last_processed_block_index(p.m_storage), 1)

\* where the loop over the new blocks starts
first_block_index_of(p) ==
  IF UAdd(get_last_processed_block_index(p.m_storage), 1)
       > UAdd(block_height(p.m_blockchain_based_list), 1)
  THEN UAdd(block_height(p.m_blockchain_based_list), 1)
  ELSE UAdd(get_last_processed_block_index(p.m_storage), 1)

\* the loop over the new blocks without the cap on its iterations
last_block_index_for_sync_uncapped(height, first_block_index) == height

\* where it ends
last_block_index_for_sync_of(height, first_block_index) ==
  IF USub(height, first_block_index) > MAX_ITERATIONS_COUNT
  THEN UAdd(first_block_index, MAX_ITERATIONS_COUNT)
  ELSE height

SyncReturn(p, status) ==
  [stp |-> p, status |-> status, reached |-> FALSE, capped |-> FALSE,
   scalls |-> <<>>, bcalls |-> <<>>, escaped |-> FALSE, stored |-> FALSE]

\* both storages stored when they need it
stored_storages(p) ==
  [p EXCEPT
     !.m_storage = IF Storage_need_store(@) THEN Storage_store(@) ELSE @,
     !.m_blockchain_based_list = IF List_need_store(@) THEN List_store(@) ELSE @]

\* the call of the list observer at the end of synchronize; sh is what the
\* call of the stakes observer left
finish_list(sh, o, h, reached, depth) ==
  IF reached /\ ~sh.escaped
     /\ sh.stp.m_blockchain_based_list_need_update
     /\ sh.stp.m_on_blockchain_based_list_update
  THEN [invoke_update_blockchain_based_list_handler_impl(sh.stp, o, depth, h)
          EXCEPT !.scalls = sh.scalls]
  ELSE sh

\* the stakes observer called wherever the forward loop stopped
finish_stakes_anywhere(p, h, reached, last_block_index) ==
  IF p.m_stakes_need_update /\ p.m_on_stakes_update
  THEN invoke_update_stakes_handler_impl(p, USub(last_block_index, 1), h)
  ELSE NoCalls(p)

\* the call of the stakes observer at the end of synchronize
finish_stakes(p, h, reached, last_block_index) ==
  IF reached /\ p.m_stakes_need_update /\ p.m_on_stakes_update
  THEN invoke_update_stakes_handler_impl(p, USub(last_block_index, 1), h)
  ELSE NoCalls(p)

\* what synchronize returns after the store; c holds what the observers did
sync_result(c, height, first_block_index, last_block_index, stored) ==
  [stp |-> c.stp, status |-> "done",
   reached |-> (last_block_index = height),
   capped  |-> (last_block_index < height /\ last_block_index
                  = last_block_index_for_sync_of(height, first_block_index)),
   scalls |-> c.scalls, bcalls |-> c.bcalls, escaped |-> c.escaped,
   stored |-> stored]

\* the storages are stored and, at the oracle's height, the observers called;
\* f is what the loop over the new blocks left
synchronize_finish(f, o, h, height, first_block_index) ==
  IF f.threw THEN SyncReturn(f.stp, "caught")
  ELSE sync_result(
         finish_list(
           finish_stakes(stored_storages(f.stp), h,
                         f.last_block_index = height, f.last_block_index),
           o, h, f.last_block_index = height,
           USub(f.last_block_index, first_block_index)),
         height, first_block_index, f.last_block_index,
         List_need_store(f.stp.m_blockchain_based_list)
           \/ Storage_need_store(f.stp.m_storage))

\* the loop over the new blocks and what follows; p is the processor after
\* the unroll
synchronize_apply(p, o, h, height, first_block_index) ==
  synchronize_finish(
    apply_new_blocks(p, o, first_block_index,
      last_block_index_for_sync_of(height, first_block_index)),
    o, h, height, first_block_index)

\* u is what the unroll left
synchronize_unrolled(u, o, h) ==
  IF u.dne THEN SyncReturn(u.stp, "dne")
  ELSE synchronize_apply(u.stp, o, h, get_current_blockchain_height(o),
                         first_block_index_of(u.stp))

\* synchronize()
synchronize(p, o, h) ==
  IF ~synchronize_enters(o) THEN SyncReturn(p, "return")
  ELSE IF p.m_storage.present /\ p.m_blockchain_based_list.present
  THEN synchronize_unrolled(unroll(p, o, get_current_blockchain_height(o)), o, h)
  ELSE IF init_storages_impl(p, o).raised
  THEN [SyncReturn(p, "raised") EXCEPT !.escaped = TRUE]
  ELSE synchronize_unrolled(
         unroll(init_storages_impl(p, o).stp, o, get_current_blockchain_height(o)),
         o, h)

---------------------------------------------------------------------------
(* The state machine *)

\* faults the oracle can show during one call: BLOCK_DNE for a block index,
\* a block body that is not found, a failing get_transactions
Faults ==
  {NoFault} \cup {[kind |-> k, at |-> i] :
                    k \in {"dne", "nobody", "notxs"}, i \in 1..(MaxHeight - 1)}

\* hard fork tables: the version is in force from the genesis block on, or
\* its ideal height is 1 and the chain switches at height 2
HardForks == {[ideal |-> 0, actual |-> 0], [ideal |-> 1, actual |-> 2]}

\* block kinds: without and with disqualification transactions
StakeKinds == {0, 1}
DisqKinds == {0, 1, 2}

NoTx == PlainTx(0)

\* a stake_transaction record with nothing in it
NoStakeTx ==
  [supernode_public_id |-> 0, amount |-> 0, block_height |-> 0, hash |-> 0,
   unlock_time |-> 0]

\* the threads of the model: one calls synchronize(), two call the other
\* entry points, one is the node working on the blockchain
Callers == {"caller1", "caller2"}
Threads == {"sync", "chain"} \cup Callers

\* no thread is inside the processor and both locks are free
NoThreads ==
  [pc |-> [t \in Threads |-> "idle"],
   call |-> [t \in Threads |-> ""],
   storage_owner |-> "none",
   blockchain_owner |-> "none"]

LastNone ==
  [op |-> "new", n |-> 0, fault |-> NoFault, h |-> HandlersOk,
   force |-> FALSE, depth |-> 0, status |-> "", reached |-> FALSE,
   capped |-> FALSE, first_capped |-> FALSE, stored |-> FALSE,
   changed_sts |-> FALSE, changed_bbl |-> FALSE, changed_disk |-> FALSE,
   scalls |-> <<>>, bcalls |-> <<>>, escaped |-> FALSE,
   block |-> 0, id |-> 0, stake |-> NoStake, tx |-> NoTx, outcome |-> "",
   after_sync |-> FALSE, first_fired |-> FALSE,
   s |-> NoStakeTx, valid |-> FALSE, events |-> <<>>, single |-> InitStp,
   retry |-> FALSE]

Op(name) == [LastNone EXCEPT !.op = name, !.n = 1]

ListContent(l) == l.history

\* the oracle changed: a synchronize that had not finished against the old
\* chain means the run is no longer a sequence of completed synchronisations
OracleChanged ==
  scn' = [scn EXCEPT !.inflight = FALSE, !.pure = scn.pure /\ ~scn.inflight]

\* nothing has happened in the run yet
ScnNone == [inflight |-> FALSE, pure |-> TRUE, rolled |-> FALSE, inits |-> 0]

InitOn(HF) ==
  /\ chain = <<>>
  /\ hf \in HF
  /\ stp = InitStp
  /\ last = LastNone
  /\ scn = ScnNone
  /\ thr = NoThreads

\* the oracle receives a block; the genesis block is empty and a transaction
\* is in one block of a chain only
OracleAppend(Kinds, Height) ==
  /\ Len(chain) < Height
  /\ \E kind \in Kinds :
       /\ chain = <<>> => kind = 0
       /\ kind = 0 \/ kind \notin Range(chain)
       /\ chain' = Append(chain, kind)
  /\ last' = Op("append")
  /\ OracleChanged
  /\ UNCHANGED <<hf, stp, thr>>

\* the oracle drops its top block (the genesis block stays)
OraclePop ==
  /\ Len(chain) > 1
  /\ chain' = SubSeq(chain, 1, Len(chain) - 1)
  /\ last' = Op("pop")
  /\ OracleChanged
  /\ UNCHANGED <<hf, stp, thr>>

\* the call removed a block from the processed chain
Unrolled(p, q) ==
  \E j \in 1..Len(p.m_storage.chain) :
    j > Len(q.m_storage.chain) \/ q.m_storage.chain[j] # p.m_storage.chain[j]

\* the processor without the bookkeeping of its calls
Unlogged(p) == [p EXCEPT !.m_storage.log = <<>>]

\* synchronize() called from outside; Keep: with "events" the calls it makes
\* on the storages are kept in last.events, with "single" what the call
\* would have left had the oracle not failed is kept in last.single, and
\* last.retry tells that the call before left its forward loop on BLOCK_DNE
SynchronizeWith(F, H, Keep) ==
  \E f \in F, h \in H :
    /\ f.kind = "none" \/ f.at < Len(chain)
    /\ \E r \in {synchronize(stp, Oracle(chain, hf, f), h)} :
         /\ stp' = Unlogged(r.stp)
         /\ last' = [Op("sync") EXCEPT
               !.events = IF "events" \in Keep THEN r.stp.m_storage.log
                          ELSE <<>>,
               !.single = IF "single" \in Keep
                          THEN Unlogged(synchronize(stp,
                                 Oracle(chain, hf, NoFault), h).stp)
                          ELSE InitStp,
               !.retry = /\ "single" \in Keep
                         /\ last.op = "sync" /\ last.fault.kind = "dne"
                         /\ last.status = "done"
                         /\ ~last.reached /\ ~last.capped,
               !.n = IF last.op = "sync" /\ last.fault = f /\ last.h = h
                     THEN 2 ELSE 1,
               !.fault = f, !.h = h, !.status = r.status,
               !.reached = r.reached, !.capped = r.capped,
               !.first_capped = (last.op = "sync" /\ last.capped),
               !.stored = r.stored,
               !.changed_sts =
                 StorageContent(r.stp.m_storage) # StorageContent(stp.m_storage),
               !.changed_bbl =
                 ListContent(r.stp.m_blockchain_based_list)
                   # ListContent(stp.m_blockchain_based_list),
               !.changed_disk =
                 \/ r.stp.m_storage.disk # stp.m_storage.disk
                 \/ r.stp.m_blockchain_based_list.disk
                      # stp.m_blockchain_based_list.disk,
               !.scalls = r.scalls, !.bcalls = r.bcalls,
               !.escaped = r.escaped]
         /\ scn' = [scn EXCEPT
               !.inflight = ~(r.status = "return" \/ r.reached),
               !.pure     = scn.pure /\ f = NoFault /\ h = HandlersOk,
               !.rolled   = scn.rolled \/ Unrolled(stp, r.stp)]
    /\ UNCHANGED <<chain, hf, thr>>

Synchronize(F, H) == SynchronizeWith(F, H, {})

FindStake ==
  \E b \in 1..MaxHeight, id \in Ids :
    LET r == find_supernode_stake(stp, b, id)
    IN  /\ stp' = r.stp
        /\ last' = [Op("find") EXCEPT !.block = b, !.id = id, !.stake = r.result]
        /\ UNCHANGED <<chain, hf, scn, thr>>

\* the last call was a synchronize that changed the content of a storage, or
\* only handlers were set since one
AfterSync ==
  \/ last.op = "sync" /\ (last.changed_sts \/ last.changed_bbl)
  \/ last.op \in {"set_stakes_handler", "set_list_handler"} /\ last.after_sync

\* set_on_update_stakes_handler(handler): a function, or an empty one
SetStakesHandler(Functions) ==
  \E handler \in Functions :
    /\ stp' = [stp EXCEPT !.m_on_stakes_update = handler]
    /\ last' = [Op("set_stakes_handler") EXCEPT !.after_sync = AfterSync]
    /\ UNCHANGED <<chain, hf, scn, thr>>

\* set_on_update_blockchain_based_list_handler(handler)
SetListHandler(Functions) ==
  \E handler \in Functions :
    /\ stp' = [stp EXCEPT !.m_on_blockchain_based_list_update = handler]
    /\ last' = [Op("set_list_handler") EXCEPT !.after_sync = AfterSync]
    /\ UNCHANGED <<chain, hf, scn, thr>>

\* invoke_update_stakes_handler(force) called from outside; n = 2: the call
\* before was one with force = false too
InvokeStakes(H) ==
  \E force \in BOOLEAN, h \in H :
    \E r \in {invoke_update_stakes_handler(stp, Oracle(chain, hf, NoFault),
                                           force, h)} :
      /\ stp' = r.stp
      /\ last' = [Op("invoke_stakes") EXCEPT
            !.n = IF last.op = "invoke_stakes" /\ ~last.force THEN 2 ELSE 1,
            !.force = force, !.h = h, !.scalls = r.scalls,
            !.escaped = r.escaped,
            !.after_sync = \/ AfterSync
                           \/ last.op = "invoke_stakes" /\ last.n = 1
                                /\ last.after_sync,
            !.first_fired = (last.op = "invoke_stakes" /\ last.scalls # <<>>)]
      /\ UNCHANGED <<chain, hf, scn, thr>>

\* invoke_update_blockchain_based_list_handler(force, depth) called from
\* outside; n = 2: the call before was one with force = false and depth <= 1
InvokeList(H) ==
  \E force \in BOOLEAN, depth \in 0..SUPERNODE_HISTORY_SIZE, h \in H :
    \E r \in {invoke_update_blockchain_based_list_handler(stp,
                Oracle(chain, hf, NoFault), force, depth, h)} :
      /\ stp' = r.stp
      /\ last' = [Op("invoke_list") EXCEPT
            !.n = IF last.op = "invoke_list" /\ ~last.force /\ last.depth <= 1
                  THEN 2 ELSE 1,
            !.force = force, !.depth = depth, !.h = h,
            !.bcalls = r.bcalls, !.escaped = r.escaped,
            !.after_sync = \/ AfterSync
                           \/ last.op = "invoke_list" /\ last.n = 1
                                /\ last.after_sync,
            !.first_fired = (last.op = "invoke_list" /\ last.bcalls # <<>>)]
      /\ UNCHANGED <<chain, hf, scn, thr>>

\* init_storages(config_dir) called from outside; n = 2: it had been called
\* before
InitStorages(Dirs) ==
  \E config_dir \in Dirs :
    \E r \in {init_storages(stp, config_dir)} :
      /\ stp' = r.stp
      /\ last' = [Op("init_storages") EXCEPT
            !.n = IF scn.inits >= 1 THEN 2 ELSE 1,
            !.escaped = r.raised]
      /\ scn' = [scn EXCEPT !.inits = Min(2, @ + 1)]
      /\ UNCHANGED <<chain, hf, thr>>

\* the oracle as a call outside synchronize sees it
TheOracle == Oracle(chain, hf, NoFault)

\* the signers a disqualification handed to the checks can carry, and a
\* block hash that is the hash of no block
SignerSeqs == {<<>>, <<3>>, <<1, 2>>, <<2, 3>>, <<1, 3>>}
WrongHash == <<9>>

\* reading through the absent m_blockchain_based_list is undefined: the call
\* may end in any way
Outcomes(result) ==
  IF result = "fault" THEN {"accepted", "rejected", "crashed"} ELSE {result}

\* a disqualification of version 123 or 124 for block bh
CheckedTx(version, check_ok, bh, right, id, signers) ==
  DisqTx(20, version,
    [NoDisq EXCEPT !.parse_ok = TRUE, !.check_ok = check_ok,
                   !.block_height = bh,
                   !.block_hash = IF right /\ bh < Len(chain)
                                  THEN block_hash_of(chain, bh) ELSE WrongHash,
                   !.id = id, !.ids = <<id>>, !.signers = signers])

\* check_disqualification_transaction / check_disqualification2_transaction
\* called with a transaction
CheckDisq ==
  /\ last.op # "check"
  /\ \E version \in {123, 124}, check_ok \in BOOLEAN, bh \in 1..(MaxHeight - 1),
        right \in BOOLEAN, id \in Ids, signers \in SignerSeqs :
       \E tx \in {CheckedTx(version, check_ok, bh, right, id, signers)} :
         \E outcome \in Outcomes(
               IF version = 123
               THEN check_disqualification_transaction(stp, TheOracle, tx)
               ELSE check_disqualification2_transaction(stp, TheOracle, tx)) :
           last' = [Op("check") EXCEPT !.tx = tx, !.outcome = outcome]
  /\ UNCHANGED <<chain, hf, stp, scn, thr>>

---------------------------------------------------------------------------
(* Spec: synchronisation against a chain that grows and shrinks; the oracle *)
(* shows no fault and no observer is registered                             *)

AppendCore == OracleAppend(StakeKinds, MaxHeight)
SyncCore == Synchronize({NoFault}, {HandlersOk})

Init == InitOn(HardForks)

Next == AppendCore \/ OraclePop \/ SyncCore

Spec == Init /\ [][Next]_vars

---------------------------------------------------------------------------
(* Properties of Spec *)

\* the body of the block a processed_chain entry stands for
BodyOf(entry) == BlockTxs(entry.hash[Len(entry.hash)])

\* C9: when the oracle is empty or the hard fork version of its top block is
\* below STAKE_TRANSACTION_PROCESSING_DB_VERSION, a call of synchronize
\* leaves the processor as it was (handles, stored content and both
\* need-update flags) and calls no observer.
C9_NoOpBelowFork ==
  [][(/\ last'.op = "sync"
      /\ \/ Len(chain) = 0
         \/ get_hard_fork_version(TheOracle, Len(chain) - 1)
              < STAKE_TRANSACTION_PROCESSING_DB_VERSION)
     => /\ stp' = stp
        /\ last'.scalls = <<>> /\ last'.bcalls = <<>>
        /\ ~last'.stored /\ ~last'.changed_disk]_vars

\* synchronize was called on a non-empty chain below the hard fork and the
\* storages are absent still
C9_Witness ==
  /\ last.op = "sync" /\ last.status = "return"
  /\ Len(chain) > 0
  /\ get_hard_fork_version(TheOracle, Len(chain) - 1)
       < STAKE_TRANSACTION_PROCESSING_DB_VERSION
  /\ ~stp.m_storage.present /\ ~stp.m_blockchain_based_list.present

\* C10: every stake transaction in STS.txs has a positive amount, the block
\* index of the block it was found in, and as unlock_time the true difference
\* of the transaction's unlock_time and that block index, which lies in
\* [STAKE_MIN_UNLOCK_TIME, STAKE_MAX_UNLOCK_TIME]; no transaction whose
\* unlock_time is below its block index is held.
C10_AcceptedStakes ==
  \A k \in 1..Len(stp.m_storage.txs) :
    LET s  == stp.m_storage.txs[k]
        tx == TxByHash(s.hash)
    IN  /\ s.amount > 0
        /\ \E j \in 1..Len(stp.m_storage.chain) :
             /\ stp.m_storage.chain[j].idx = s.block_height
             /\ tx \in Range(BodyOf(stp.m_storage.chain[j]))
        /\ tx.unlock_time >= s.block_height
        /\ s.unlock_time = tx.unlock_time - s.block_height
        /\ s.unlock_time >= STAKE_MIN_UNLOCK_TIME
        /\ s.unlock_time <= STAKE_MAX_UNLOCK_TIME

\* a block that carries TWrap (unlock_time 0) and TZero (amount 0) was
\* processed and stake transactions of it are held
C10_Witness ==
  /\ Len(stp.m_storage.txs) > 0
  /\ \E j \in 1..Len(stp.m_storage.chain) :
       /\ stp.m_storage.chain[j].idx >= 1
       /\ TWrap \in Range(BodyOf(stp.m_storage.chain[j]))
       /\ TZero \in Range(BodyOf(stp.m_storage.chain[j]))

\* synchronize called again and again on a processor until it ends caught up
\* with the oracle or returns at its first check (n bounds the calls)
RECURSIVE CompletedSync(_, _, _)
CompletedStep(r, o, n) ==
  IF r.status = "return" \/ r.reached \/ n = 0 THEN r.stp
  ELSE CompletedSync(r.stp, o, n - 1)

CompletedSync(p, o, n) == CompletedStep(synchronize(p, o, HandlersOk), o, n)

\* what the claims call the state of the STS and of the BBL
Content(p) == [sts |-> StorageContent(p.m_storage),
               bbl |-> ListContent(p.m_blockchain_based_list)]

\* C2: in a run in which the oracle changes only between synchronisations
\* that were run to completion, the STS and BBL content after a completed
\* synchronize equals the content of a fresh processor synchronised to
\* completion against the oracle as it is now.
C2_ReorgConvergence ==
  (/\ last.op = "sync" /\ scn.pure
   /\ last.reached \/ last.status = "return")
  => Content(stp) = Content(CompletedSync(InitStp, TheOracle, MaxHeight))

\* C3 as stated: the second of two back-to-back calls of synchronize against
\* an unchanged oracle changes neither the content nor what is persisted,
\* and stores nothing, whatever the distance to the oracle height was.
C3_Idempotent ==
  (last.op = "sync" /\ last.n = 2)
  => /\ ~last.changed_sts /\ ~last.changed_bbl
     /\ ~last.changed_disk /\ ~last.stored

\* C3 amended: the same, provided the first call was not stopped by
\* MAX_ITERATIONS_COUNT before it reached the oracle height.
C3_IdempotentOnceCaughtUp ==
  (last.op = "sync" /\ last.n = 2 /\ ~last.first_capped)
  => /\ ~last.changed_sts /\ ~last.changed_bbl
     /\ ~last.changed_disk /\ ~last.stored

\* a second call right after a call that reached the oracle height and holds
\* stake transactions
C3_Witness ==
  /\ last.op = "sync" /\ last.n = 2 /\ ~last.first_capped
  /\ last.reached
  /\ Len(stp.m_storage.txs) > 0

---------------------------------------------------------------------------
(* SpecFault: synchronisation against a chain that grows while the oracle   *)
(* shows faults                                                             *)

SyncFault == Synchronize(Faults, {HandlersOk})

NextFault == AppendCore \/ SyncFault

SpecFault == Init /\ [][NextFault]_vars

\* C1: when synchronize returns after its loop reached the oracle height H,
\* the last processed block index is H-1 and the processed chain holds one
\* entry for every index from the first block on to H-1, without gaps, with
\* the oracle's hash of that block.
C1_SyncPostcondition ==
  (last.op = "sync" /\ last.reached)
  => /\ get_last_processed_block_index(stp.m_storage) = Len(chain) - 1
     /\ Len(stp.m_storage.chain) = Len(chain) - 1 - stp.m_storage.first
     /\ \A j \in 1..Len(stp.m_storage.chain) :
          /\ stp.m_storage.chain[j].idx = stp.m_storage.first + j
          /\ stp.m_storage.chain[j].hash
               = block_hash_of(chain, stp.m_storage.first + j)

---------------------------------------------------------------------------
(* SpecDisq: blocks with disqualification transactions, and the checks of   *)
(* disqualifications called from outside                                    *)

AppendDisq == OracleAppend(DisqKinds, MaxHeight)

InitDisq == InitOn({[ideal |-> 0, actual |-> 0]})

NextDisq == AppendDisq \/ SyncCore \/ CheckDisq

SpecDisq == InitDisq /\ [][NextDisq]_vars

\* the snapshots the BBL holds for block index bh (none or one)
SnapshotsAt(bh) ==
  {stp.m_blockchain_based_list.history[k].tiers :
     k \in {j \in 1..Len(stp.m_blockchain_based_list.history) :
              stp.m_blockchain_based_list.history[j].idx = bh}}

QCL(ts, seed) ==
  Range(fromIndexes(ts, select_BBQS_QCL(seed, makeBBLindexes(ts)).qcl))

BBQS(ts, seed) ==
  Range(fromIndexes(ts, select_BBQS_QCL(seed, makeBBLindexes(ts)).bbqs))

\* the three conditions of the claim
CommitteeConditions(d) ==
  /\ Len(d.signers) >= REQUIRED_BBQS_VOTES
  /\ \E ts \in SnapshotsAt(d.block_height) :
       /\ d.id \in QCL(ts, d.block_hash)
       /\ Range(d.signers) \subseteq BBQS(ts, d.block_hash)

\* the oracle holds a block at d.block_height and its hash is d.block_hash
HashMatches(d) ==
  d.block_height < Len(chain) /\ d.block_hash = block_hash_of(chain, d.block_height)

\* C5 as stated (with the BBL created): a v1 disqualification is accepted
\* if and only if its id is in the QCL of the snapshot at its block height,
\* every signer is in the BBQS of that snapshot and there are at least
\* REQUIRED_BBQS_VOTES signers.
C5_AcceptedIffCommittee ==
  (/\ last.op = "check" /\ last.tx.version = 123
   /\ stp.m_blockchain_based_list.present)
  => (last.outcome = "accepted" <=> CommitteeConditions(last.tx.disq))

\* C5 amended: a v1 disqualification is accepted only if
\* graft_check_disqualification succeeds and the oracle's hash of the block
\* at its block height is its block hash; with the BBL created it is
\* accepted if and only if, in addition, the three conditions hold for the
\* snapshot the BBL holds for that block height.
C5_AcceptedIffValidated ==
  (last.op = "check" /\ last.tx.version = 123)
  => /\ last.outcome = "accepted"
          => last.tx.disq.check_ok /\ HashMatches(last.tx.disq)
     /\ stp.m_blockchain_based_list.present
          => (last.outcome = "accepted"
                <=> /\ last.tx.disq.check_ok
                    /\ HashMatches(last.tx.disq)
                    /\ CommitteeConditions(last.tx.disq))

\* a v1 disqualification was accepted against a snapshot of three supernodes
C5_Witness ==
  /\ last.op = "check" /\ last.tx.version = 123
  /\ last.outcome = "accepted"
  /\ stp.m_blockchain_based_list.present
  /\ \E ts \in SnapshotsAt(last.tx.disq.block_height) :
       Len(ts[1]) + Len(ts[2]) = 3

\* C6: every disqualification recorded in the STS passed its validation: it
\* names a block of the oracle by its hash and carries the required number
\* of signers, and the ids a v2 disqualification names are in the auth
\* sample of the snapshot the BBL holds for its block height.
C6_OnlyValidated ==
  /\ \A k \in 1..Len(stp.m_storage.disquals) :
       /\ HashMatches(stp.m_storage.disquals[k].blob)
       /\ Len(stp.m_storage.disquals[k].blob.signers) >= REQUIRED_BBQS_VOTES
  /\ \A k \in 1..Len(stp.m_storage.disquals2) :
       /\ HashMatches(stp.m_storage.disquals2[k].blob)
       /\ Len(stp.m_storage.disquals2[k].blob.signers)
            >= REQUIRED_DISQUAL2_VOTES
       /\ \A ts \in SnapshotsAt(stp.m_storage.disquals2[k].blob.block_height) :
            Range(stp.m_storage.disquals2[k].blob.ids) \subseteq
              Range(auth_sample(ts, stp.m_storage.disquals2[k].blob.payment_id))

---------------------------------------------------------------------------
(* SpecFind: synchronisation against a chain that grows and shrinks, and    *)
(* lookups of supernode stakes                                              *)

NextFind == AppendCore \/ OraclePop \/ SyncCore \/ FindStake

SpecFind == InitDisq /\ [][NextFind]_vars

RECURSIVE AmountOver(_, _)
\* the amounts of the stake transactions txs[k], k in S, added up
AmountOver(txs, S) ==
  IF S = {} THEN 0
  ELSE LET k == CHOOSE j \in S : TRUE
       IN  txs[k].amount + AmountOver(txs, S \ {k})

\* the stake transactions of supernode id that are valid at block b
ValidStakes(id, b) ==
  {k \in 1..Len(stp.m_storage.txs) :
     /\ stp.m_storage.txs[k].supernode_public_id = id
     /\ is_valid(stp.m_storage.txs[k], b)}

Processed(b) ==
  \E j \in 1..Len(stp.m_storage.chain) : stp.m_storage.chain[j].idx = b

\* C4: find_supernode_stake(b, id) for a processed block b is the sum of the
\* amounts of the stake transactions of id that are valid at b; it has no
\* result exactly when there is no such transaction, and none while the
\* storages are not created.
C4_FindStakeIsSum ==
  (last.op = "find")
  => /\ ~stp.m_storage.present => ~last.stake.found
     /\ Processed(last.block)
          => /\ last.stake.found <=> ValidStakes(last.id, last.block) # {}
             /\ last.stake.found
                  => last.stake.amount
                       = AmountOver(stp.m_storage.txs,
                                    ValidStakes(last.id, last.block))

\* a lookup after a rollback that summed up two stake transactions
C4_Witness ==
  /\ last.op = "find" /\ Processed(last.block)
  /\ last.stake.found
  /\ Cardinality(ValidStakes(last.id, last.block)) = 2
  /\ scn.rolled


---------------------------------------------------------------------------
(* SpecObs: observers are registered and called while the chain grows and   *)
(* shrinks                                                                  *)

\* what a registered handler does when called: it returns, or the stakes
\* handler, or the first call of the list handler, throws a std::exception
Handlers == {HandlersOk, [s |-> "std", b |-> "std", bat |-> 1]}

AppendObs == OracleAppend(StakeKinds, ObsHeight)
SyncObs == Synchronize({NoFault}, {HandlersOk})
RegisterStakes == SetStakesHandler({TRUE})
RegisterList == SetListHandler({TRUE})
InvokeStakesObs == InvokeStakes(Handlers)
InvokeListObs == InvokeList(Handlers)

NextObs ==
  \/ AppendObs
  \/ OraclePop
  \/ RegisterStakes
  \/ RegisterList
  \/ SyncObs
  \/ InvokeStakesObs
  \/ InvokeListObs

SpecObs == InitDisq /\ [][NextObs]_vars

\* a call of invoke_update_stakes_handler(false), and one of
\* invoke_update_blockchain_based_list_handler(false, depth <= 1), with the
\* handler registered
StakesInvoked ==
  last.op = "invoke_stakes" /\ ~last.force /\ stp.m_on_stakes_update
ListInvoked ==
  /\ last.op = "invoke_list" /\ ~last.force /\ last.depth <= 1
  /\ stp.m_on_blockchain_based_list_update

WalkedDepth(l, depth) == Min(Min(depth, history_depth(l)), SUPERNODE_HISTORY_SIZE)

\* invoke_update_stakes_handler(false) took stp to stp'
StakesStep ==
  last'.op = "invoke_stakes" /\ ~last'.force /\ stp.m_on_stakes_update

\* invoke_update_blockchain_based_list_handler(false, depth <= 1) did
ListStep ==
  /\ last'.op = "invoke_list" /\ ~last'.force /\ last'.depth <= 1
  /\ stp.m_on_blockchain_based_list_update

\* the list handler has something to be called with
ListPublishable(l, depth) ==
  /\ l.present
  /\ block_height(l) # 0
  /\ WalkedDepth(l, depth) = 1
  /\ block_height(l) < Len(chain)

StakesByFlag ==
  /\ (last'.scalls # <<>>)
       <=> (stp.m_stakes_need_update /\ stp.m_storage.present)
  /\ (last'.scalls # <<>> /\ last'.h.s = "ok") => ~stp'.m_stakes_need_update
  /\ (last'.n = 2 /\ (last.scalls = <<>> \/ last.h.s = "ok"))
       => (last'.scalls = <<>>)

ListByFlag ==
  /\ (last'.bcalls # <<>>)
       <=> (/\ stp.m_blockchain_based_list_need_update
            /\ ListPublishable(stp.m_blockchain_based_list, last'.depth))
  /\ (last'.bcalls # <<>> /\ last'.h.b = "ok")
       => ~stp'.m_blockchain_based_list_need_update
  /\ (last'.n = 2 /\ (last.bcalls = <<>> \/ last.h.b = "ok"))
       => (last'.bcalls = <<>>)

C8_ChangeRepublished ==
  (last.op = "sync" /\ last.reached /\ last.h = HandlersOk) =>
    /\ (last.changed_sts /\ stp.m_on_stakes_update)
         => (last.scalls # <<>> \/ stp.m_stakes_need_update)
    /\ (last.changed_bbl /\ stp.m_on_blockchain_based_list_update)
         => (last.bcalls # <<>> \/ stp.m_blockchain_based_list_need_update)

---------------------------------------------------------------------------
(* SpecValid: stake_transaction::is_valid called on a stake transaction and *)
(* a block index of any value a uint64_t holds                              *)

UInt64 == 0..(UINT64_MOD - 1)

\* a stake_transaction with the given block_height and unlock_time
StakeAt(height, unlock) ==
  [NoStakeTx EXCEPT !.supernode_public_id = 1, !.amount = 1, !.hash = 1,
                    !.block_height = height, !.unlock_time = unlock]

InitValid ==
  /\ chain = <<>>
  /\ hf = [ideal |-> 0, actual |-> 0]
  /\ stp = InitStp
  /\ scn = ScnNone
  /\ thr = NoThreads
  /\ \E height \in UInt64, unlock \in UInt64, block_index \in UInt64 :
       last = [LastNone EXCEPT !.s = StakeAt(height, unlock),
                               !.block = block_index]

\* s.is_valid(block_index)
IsValid ==
  /\ last.op = "new"
  /\ last' = [Op("is_valid") EXCEPT
        !.s = last.s, !.block = last.block,
        !.valid = is_valid(last.s, last.block)]
  /\ UNCHANGED <<chain, hf, stp, scn, thr>>

NextValid == IsValid

SpecValid == InitValid /\ [][NextValid]_vars

---------------------------------------------------------------------------
(* Properties of SpecFault: transactions that fail *)

\* what makes a transaction of block i a stake transaction to accept
ValidStakeTx(tx, i) ==
  /\ tx.version # 123 /\ tx.version # 124
  /\ tx.has_stake_extra /\ ~tx.throws
  /\ tx.supernode_public_id # 0 /\ tx.signature_ok
  /\ tx.amount > 0
  /\ tx.unlock_time >= i
  /\ tx.unlock_time - i >= STAKE_MIN_UNLOCK_TIME
  /\ tx.unlock_time - i <= STAKE_MAX_UNLOCK_TIME

\* the STS holds the transaction as a stake of block i
HeldAt(tx, i) ==
  \E k \in 1..Len(stp.m_storage.txs) :
    /\ stp.m_storage.txs[k].hash = tx.hash
    /\ stp.m_storage.txs[k].block_height = i

\* of the transactions of block i the valid stake transactions are held and
\* no other
StakesOfBlockHeld(i) ==
  \A tx \in Range(BlockTxs(chain[i + 1])) : ValidStakeTx(tx, i) <=> HeldAt(tx, i)

\* block i is in the processed chain
Recorded(i) ==
  \E j \in 1..Len(stp.m_storage.chain) : stp.m_storage.chain[j].idx = i

---------------------------------------------------------------------------
(* SpecThrow: the registered handlers may throw, a std::exception or        *)
(* something else, while the chain grows                                    *)

ThrowingHandlers ==
  Handlers \cup {[s |-> "other", b |-> "other", bat |-> 2],
                 [s |-> "ok", b |-> "other", bat |-> 1]}

SyncThrow == Synchronize({NoFault}, ThrowingHandlers)
InvokeStakesThrow == InvokeStakes(ThrowingHandlers)
InvokeListThrow == InvokeList(ThrowingHandlers)

NextThrow ==
  \/ AppendObs
  \/ RegisterStakes
  \/ RegisterList
  \/ SyncThrow
  \/ InvokeStakesThrow
  \/ InvokeListThrow

SpecThrow == InitDisq /\ [][NextThrow]_vars

\* the step was a call that can notify observers
Notifying == last'.op \in {"sync", "invoke_stakes", "invoke_list"}

\* a call of the stakes handler, and one of the list handler, threw in it
StakesHandlerThrew == last'.scalls # <<>> /\ last'.h.s # "ok"
ListHandlerThrew == last'.h.b # "ok" /\ Len(last'.bcalls) >= last'.h.bat

\* a failed notification leaves the flag as it was (set, in synchronize,
\* which notifies only when the flag is set) and the content of the storages
\* alone, and a flag is cleared only by a notification in which no call threw
Contained ==
  /\ ~last'.escaped
  /\ StakesHandlerThrew
       => IF last'.op = "sync" THEN stp'.m_stakes_need_update
          ELSE stp'.m_stakes_need_update = stp.m_stakes_need_update
  /\ ListHandlerThrew
       => IF last'.op = "sync" THEN stp'.m_blockchain_based_list_need_update
          ELSE stp'.m_blockchain_based_list_need_update
                 = stp.m_blockchain_based_list_need_update
  /\ (last'.op # "sync" /\ (StakesHandlerThrew \/ ListHandlerThrew))
       => Content(stp') = Content(stp)
  /\ (stp.m_stakes_need_update /\ ~stp'.m_stakes_need_update)
       => (last'.scalls # <<>> /\ ~StakesHandlerThrew)
  /\ (stp.m_blockchain_based_list_need_update
        /\ ~stp'.m_blockchain_based_list_need_update)
       => ~ListHandlerThrew

\* C13: an exception raised by an observer callback, in synchronize or in
\* invoke_update_*, does not escape the processor, the failed notification
\* leaves the STS and BBL content as it was and the need-update flag set; a
\* need-update flag is cleared only when all handler calls of the
\* notification returned.
C13_ObserverExceptionContained == [][Notifying => Contained]_vars

\* the same holds of handlers that throw nothing but a std::exception
StdExceptionContained ==
  [][(Notifying /\ last'.h.s # "other" /\ last'.h.b # "other")
       => Contained]_vars

---------------------------------------------------------------------------
(* SpecInit: init_storages is called, once or more, while the chain grows   *)
(* and is synchronised                                                      *)

ConfigDirs == {"", "dir1", "dir2"}

AppendInit == OracleAppend(StakeKinds, ObsHeight)
InitStoragesAny == InitStorages(ConfigDirs)

NextInit == AppendInit \/ SyncCore \/ InitStoragesAny

SpecInit == Init /\ [][NextInit]_vars

\* C14: once init_storages has been called, every later call of it raises an
\* error and leaves the configured directory and the STS / BBL handles as
\* they were, whether or not a synchronize created the storages in between.
C14_DoubleInitFails ==
  [][(last'.op = "init_storages" /\ scn.inits >= 1)
       => (last'.escaped /\ stp' = stp)]_vars

\* a later call raises once the storages exist
DoubleInitFailsOnceCreated ==
  [][(last'.op = "init_storages" /\ stp.m_storage.present)
       => (last'.escaped /\ stp' = stp)]_vars

\* ---------------------------------------------------------------------
\* Order of the calls one synchronize() makes on the two storages
\* ---------------------------------------------------------------------

AppendOrder == OracleAppend(DisqKinds, ObsHeight)

\* the oracle may fail on the block at index 1
OrderFaults ==
  {NoFault} \cup {[kind |-> k, at |-> 1] : k \in {"dne", "nobody", "notxs"}}

SyncOrder == SynchronizeWith(OrderFaults, {HandlersOk}, {"events"})

NextOrder == AppendOrder \/ OraclePop \/ SyncOrder

SpecOrder == Init /\ [][NextOrder]_vars

RemoveEvents == {"remove_last_processed_block", "remove_latest_block"}

\* place of a call within the processing of one block (lines 496, 511-512,
\* 518, 523, 533)
EventRank(ev) ==
  CASE ev = "add_tx"                   -> 1
    [] ev = "add_disquals"             -> 2
    [] ev = "add_disquals2"            -> 2
    [] ev = "update_supernode_stakes"  -> 3
    [] ev = "add_last_processed_block" -> 4
    [] ev = "apply_block"              -> 5
    [] OTHER                           -> 0

RollbackFirst(events) ==
  \A a, b \in DOMAIN events :
    (events[a].ev \notin RemoveEvents /\ events[b].ev \in RemoveEvents)
      => (b < a)

BlockOrdered(events) ==
  \A a, b \in DOMAIN events :
    (/\ a < b
     /\ events[a].idx = events[b].idx
     /\ events[a].ev \notin RemoveEvents
     /\ events[b].ev \notin RemoveEvents)
      => (EventRank(events[a].ev) <= EventRank(events[b].ev))

\* every applied block is handed to the list after its own stake-storage
\* calls, and one block is finished before the next one starts
BlocksInTurn(events) ==
  \A a, b \in DOMAIN events :
    (/\ a < b
     /\ events[a].ev \notin RemoveEvents
     /\ events[b].ev \notin RemoveEvents)
      => (events[a].idx <= events[b].idx)

\* C15: within one synchronize() every remove_last_processed_block and
\* remove_latest_block call precedes the first call that applies a block,
\* and for each applied block the calls come in the order add_tx, then
\* add_disquals / add_disquals2, then update_supernode_stakes, then
\* add_last_processed_block, then apply_block on the list.
C15_CallOrder ==
  (last.op = "sync")
    => (/\ RollbackFirst(last.events)
        /\ BlockOrdered(last.events)
        /\ BlocksInTurn(last.events))

\* a synchronize() that rolled back and then applied a block holding a stake
C15_Witness ==
  /\ last.op = "sync"
  /\ \E a, b, c, d, e \in DOMAIN last.events :
       /\ last.events[a].ev = "remove_last_processed_block"
       /\ last.events[b].ev = "remove_latest_block"
       /\ last.events[c].ev = "add_tx"
       /\ last.events[d].ev = "update_supernode_stakes"
       /\ last.events[e].ev = "apply_block"
       /\ last.events[c].idx = last.events[e].idx
       /\ last.events[d].idx = last.events[e].idx

\* ---------------------------------------------------------------------
\* What an observer finds when it is called
\* ---------------------------------------------------------------------

ObserverCalled == last.scalls # <<>> \/ last.bcalls # <<>>

\* both storages end at the block below the oracle height and are stored
StoragesAtTip ==
  /\ stp.m_storage.present
  /\ stp.m_blockchain_based_list.present
  /\ get_last_processed_block_index(stp.m_storage) = USub(Len(chain), 1)
  /\ block_height(stp.m_blockchain_based_list) = USub(Len(chain), 1)
  /\ ~stp.m_storage.need_store
  /\ ~stp.m_blockchain_based_list.need_store

StakesCallAtTip ==
  \A k \in DOMAIN last.scalls :
    last.scalls[k].block_index = get_last_processed_block_index(stp.m_storage)

\* C16: whenever the stakes observer or the list observer is called, from
\* synchronize() or from invoke_update_*, the last processed index of the
\* stake storage and the height of the list both equal the oracle height
\* minus one, the index passed to the stakes observer is that last processed
\* index, and neither storage needs a store.
C16_ObserversSeeTip == ObserverCalled => (StoragesAtTip /\ StakesCallAtTip)

\* the same for the observers called by synchronize() alone
ObserversOfSyncSeeTip ==
  (ObserverCalled /\ last.op = "sync") => (StoragesAtTip /\ StakesCallAtTip)

\* ---------------------------------------------------------------------
\* The calls of one notification of the list observer
\* ---------------------------------------------------------------------

SyncList == SynchronizeWith({NoFault}, {HandlersOk}, {})

InvokeListOk == InvokeList({HandlersOk})

NextList == AppendObs \/ OraclePop \/ SyncList \/ RegisterList \/ InvokeListOk

SpecList == InitDisq /\ [][NextList]_vars

\* invoke_update_blockchain_based_list_handler(force, depth) took stp to
\* stp' and was not held back by the need-update flag
ListNotified ==
  /\ last'.op = "invoke_list"
  /\ stp.m_on_blockchain_based_list_update
  /\ stp.m_blockchain_based_list.present
  /\ stp.m_blockchain_based_list_need_update \/ last'.force \/ last'.depth > 1

ListCallsWanted(l, depth) ==
  Min(Min(depth, history_depth(l)), SUPERNODE_HISTORY_SIZE)

\* the k-th call carries the snapshot at depth k - 1
ListCallRight(l, call, k) ==
  /\ call.depth = k - 1
  /\ call.depth < history_depth(l)
  /\ call.block_height = USub(block_height(l), k - 1)
  /\ call.block_height < Len(chain)
  /\ call.block_hash = SubSeq(chain, 1, call.block_height + 1)
  /\ call.tiers = tiers(l, k - 1)

ListCallsRight ==
  \A k \in DOMAIN last'.bcalls :
    ListCallRight(stp.m_blockchain_based_list, last'.bcalls[k], k)

ListCallsAll ==
  Len(last'.bcalls)
    = ListCallsWanted(stp.m_blockchain_based_list, last'.depth)

\* C17: a notification of the list observer with requested depth d calls it
\* exactly min(d, history_depth(), SUPERNODE_HISTORY_SIZE) times, the i-th
\* call carrying block index block_height() - i, the oracle hash of that
\* index and tiers(i), and never asks for tiers(i) with i >= history_depth().
C17_ListCallsExact ==
  [][ListNotified => (ListCallsAll /\ ListCallsRight)]_vars

\* the calls that are made are the first ones of that sequence, and all of
\* them are made when the oracle holds the block at the height of the list
ListCallsPrefix ==
  [][ListNotified =>
       (/\ Len(last'.bcalls)
             <= ListCallsWanted(stp.m_blockchain_based_list, last'.depth)
        /\ (block_height(stp.m_blockchain_based_list) < Len(chain))
             => ListCallsAll
        /\ ListCallsRight)]_vars

\* ---------------------------------------------------------------------
\* The two loops of synchronize() are bounded
\* ---------------------------------------------------------------------

SyncBounds == SynchronizeWith(OrderFaults, {HandlersOk}, {"events"})

NextBounds == AppendCore \/ OraclePop \/ SyncBounds

SpecBounds == Init /\ [][NextBounds]_vars

\* the block indices of the calls of one kind, in the order of the calls
RECURSIVE EventIndices(_, _)
EventIndices(events, ev) ==
  IF events = <<>> THEN <<>>
  ELSE IF Head(events).ev = ev
  THEN <<Head(events).idx>> \o EventIndices(Tail(events), ev)
  ELSE EventIndices(Tail(events), ev)

\* the processor as the unroll loop of the synchronize that took stp to stp'
\* found it
SyncStarted ==
  IF stp.m_storage.present /\ stp.m_blockchain_based_list.present THEN stp
  ELSE init_storages_impl(stp, Oracle(chain, hf, last'.fault)).stp

\* first_block_index of that synchronize
SyncFirst ==
  first_block_index_of(
    unroll(SyncStarted, Oracle(chain, hf, last'.fault), Len(chain)).stp)

\* every iteration of the unroll loop removed the entry that was the last
\* one of the processed chain
RemovedFromTail(removed, processed) ==
  /\ Len(removed) <= Len(processed)
  /\ \A k \in DOMAIN removed :
       removed[k] = processed[Len(processed) - k + 1].idx

\* process_block was called for first, first + 1, ... and for nothing at or
\* above the height
AppliedInRange(applied, first, height) ==
  /\ Len(applied) <= MAX_ITERATIONS_COUNT
  /\ \A k \in DOMAIN applied :
       /\ applied[k] = first + k - 1
       /\ applied[k] < height
       /\ applied[k] < first + MAX_ITERATIONS_COUNT

\* the indices the forward loop can walk, for any first_block_index and
\* height, unsigned
WalkedIndices(first, height) ==
  {i \in UInt64 : first <= i /\ i < last_block_index_for_sync_of(height, first)}

LoopBounded ==
  \A first \in UInt64, height \in UInt64 :
    Cardinality(WalkedIndices(first, height)) <= MAX_ITERATIONS_COUNT

SyncBounded ==
  /\ RemovedFromTail(
       EventIndices(last'.events, "remove_last_processed_block"),
       stp.m_storage.chain)
  /\ AppliedInRange(EventIndices(last'.events, "apply_block"),
                    SyncFirst, Len(chain))
  /\ LoopBounded

\* C18: every synchronize() ends: each iteration of the rollback loop removes
\* one entry of the processed chain, and the forward loop calls process_block
\* at most MAX_ITERATIONS_COUNT times, for the indices from first on that lie
\* below min(H, first + MAX_ITERATIONS_COUNT), never for an index at or above
\* H, whatever the stake storage tip, the list height and the oracle height.
C18_LoopsBounded == [][(last'.op = "sync") => SyncBounded]_vars

\* a synchronize() that removed an entry and then stopped at the cap with
\* blocks of the oracle left
C18_Witness ==
  /\ last.op = "sync"
  /\ last.capped
  /\ Len(EventIndices(last.events, "remove_last_processed_block")) >= 1
  /\ Len(EventIndices(last.events, "apply_block")) = MAX_ITERATIONS_COUNT

\* ---------------------------------------------------------------------
\* What synchronize() leaves unstored
\* ---------------------------------------------------------------------

\* synchronize() went past the check of height and hard fork and returned
SyncReturned ==
  /\ last.op = "sync"
  /\ last.status \in {"done", "dne", "caught"}

NothingToStore ==
  /\ ~Storage_need_store(stp.m_storage)
  /\ ~List_need_store(stp.m_blockchain_based_list)

\* C19: whenever synchronize() returns after the check of height and hard
\* fork, on whatever path (end of the forward loop, BLOCK_DNE in the rollback
\* probe, BLOCK_DNE in the forward loop, a block body not found), neither the
\* stake storage nor the list needs a store.
C19_StoredAtReturn == SyncReturned => NothingToStore

\* the same for the returns that pass the store of lines 644-648
StoredAfterForwardLoop ==
  (last.op = "sync" /\ last.status = "done") => NothingToStore

\* ---------------------------------------------------------------------
\* BLOCK_DNE in the loop over the new blocks
\* ---------------------------------------------------------------------

\* the oracle may signal BLOCK_DNE for one block below its height
MissFaults ==
  {NoFault} \cup {[kind |-> "dne", at |-> j] : j \in 1..(MaxHeight - 1)}

SyncMiss == SynchronizeWith(MissFaults, {HandlersOk}, {"events", "single"})

NextMiss == AppendCore \/ RegisterStakes \/ RegisterList \/ SyncMiss

SpecMiss == InitDisq /\ [][NextMiss]_vars

\* the same with an oracle that is reorganised as well
NextMissReorg == NextMiss \/ OraclePop

SpecMissReorg == InitDisq /\ [][NextMissReorg]_vars

\* the synchronize() just made left its forward loop on BLOCK_DNE for the
\* block last.fault.at
Missed ==
  /\ last.op = "sync"
  /\ last.fault.kind = "dne"
  /\ last.status = "done"
  /\ ~last.reached
  /\ ~last.capped

\* the block was applied and still is: the stake storage holds its entry
\* with the hash of the oracle, and the list stands at or above it
StaysApplied(p, block_index) ==
  /\ \E k \in DOMAIN p.m_storage.chain :
       /\ p.m_storage.chain[k].idx = block_index
       /\ p.m_storage.chain[k].hash = SubSeq(chain, 1, block_index + 1)
  /\ get_last_processed_block_index(p.m_storage) >= block_index
  /\ block_height(p.m_blockchain_based_list) >= block_index

AppliedBelowMiss(applied) ==
  \A k \in DOMAIN applied :
    applied[k] < last.fault.at /\ StaysApplied(stp, applied[k])

MissedCleanly ==
  /\ ~last.escaped
  /\ AppliedBelowMiss(EventIndices(last.events, "apply_block"))
  /\ NothingToStore
  /\ last.scalls = <<>>
  /\ last.bcalls = <<>>

\* the next synchronize(), the oracle answering for every block
Retried == Missed /\ last'.op = "sync" /\ last'.fault = NoFault

ResumedAtMiss ==
  /\ EventIndices(last'.events, "apply_block") # <<>>
  /\ Head(EventIndices(last'.events, "apply_block")) = last.fault.at

\* C20: when the oracle signals BLOCK_DNE for block j in the forward loop,
\* synchronize() returns without raising, the blocks below j stay applied in
\* the stake storage and in the list, and no observer is called; a later
\* synchronize() against an oracle that has block j resumes at j and leaves
\* the state a single synchronize() without the miss would have left.
C20_MissRetried ==
  [][/\ Missed' => MissedCleanly'
     /\ Retried => (/\ ResumedAtMiss
                    /\ Content(stp') = Content(last.single))]_vars

\* C20 (amended): the same, the state after the later synchronize() being
\* the one of the single synchronize() whenever that one was not stopped by
\* MAX_ITERATIONS_COUNT before the height of the oracle
C20_MissRetriedUncapped ==
  [][/\ Missed' => MissedCleanly'
     /\ Retried =>
          (/\ ResumedAtMiss
           /\ (get_last_processed_block_index(last.single.m_storage)
                 = Len(chain) - 1)
                => (/\ Content(stp') = Content(last.single)
                    /\ stp'.m_storage.disk = last.single.m_storage.disk
                    /\ stp'.m_blockchain_based_list.disk
                         = last.single.m_blockchain_based_list.disk))]_vars

\* a miss at a block above the first new one, retried up to the height,
\* with both observers registered
C20_Witness ==
  /\ last.op = "sync" /\ last.retry /\ last.fault = NoFault /\ last.reached
  /\ Len(EventIndices(last.events, "apply_block")) >= 1
  /\ Head(EventIndices(last.events, "apply_block")) >= 2
  /\ last.scalls # <<>> /\ last.bcalls # <<>>

\* ---------------------------------------------------------------------
\* process_block for a block the stake storage has already processed
\* ---------------------------------------------------------------------

SyncReplay == SynchronizeWith({NoFault}, {HandlersOk}, {"events"})

NextReplay == AppendCore \/ OraclePop \/ SyncReplay

SpecReplay == Init /\ [][NextReplay]_vars

\* the processor as the forward loop of the synchronize that took stp to
\* stp' found it
SyncUnrolled ==
  unroll(SyncStarted, Oracle(chain, hf, last'.fault), Len(chain)).stp

\* the processor as that loop hands it to process_block for block_index
BeforeBlock(block_index) ==
  apply_new_blocks(SyncUnrolled, Oracle(chain, hf, last'.fault),
                   SyncFirst, block_index).stp

\* and as process_block(block_index, block, hash, false) leaves it
AfterBlock(block_index) ==
  process_block(BeforeBlock(block_index), Oracle(chain, hf, last'.fault),
    block_index,
    get_block_by_hash(Oracle(chain, hf, last'.fault), block_index).txs,
    get_block_id_by_height(Oracle(chain, hf, last'.fault), block_index).hash,
    FALSE)

\* the blocks that synchronize handed to process_block although the stake
\* storage had processed them
Replayed ==
  {k \in 0..(Len(chain) - 1) :
     /\ last'.op = "sync"
     /\ last'.status = "done"
     /\ SyncFirst <= k
     /\ k < last_block_index_for_sync_of(Len(chain), SyncFirst)
     /\ k <= get_last_processed_block_index(SyncUnrolled.m_storage)}

StakeSideKept(p, q) ==
  /\ Unlogged(q).m_storage = Unlogged(p).m_storage
  /\ q.m_stakes_need_update = p.m_stakes_need_update

ListSideKept(p, q) ==
  /\ q.m_blockchain_based_list = p.m_blockchain_based_list
  /\ q.m_blockchain_based_list_need_update
       = p.m_blockchain_based_list_need_update

\* the list took the block as its new tip and the flag is set
ListSideApplied(p, q, block_index) ==
  /\ block_height(q.m_blockchain_based_list) = block_index
  /\ Len(q.m_blockchain_based_list.history) >= 1
  /\ q.m_blockchain_based_list.history[
        Len(q.m_blockchain_based_list.history)].hash
       = SubSeq(chain, 1, block_index + 1)
  /\ q.m_blockchain_based_list_need_update

\* C21: process_block(idx, block, hash, update_storage) with idx at or below
\* the last processed index of the stake storage changes nothing: the stake
\* storage with its stake index, the history of the list and both
\* need-update flags stay as they were, also for the blocks synchronize()
\* replays after it lowered first to the height of the list plus one.
C21_ReplayNoOp ==
  [][\A k \in Replayed :
       /\ StakeSideKept(BeforeBlock(k), AfterBlock(k))
       /\ ListSideKept(BeforeBlock(k), AfterBlock(k))]_vars

\* C21 (amended): such a call leaves the stake storage, its stake index and
\* m_stakes_need_update as they were; the block is still handed to the list,
\* which takes it as its new tip and sets
\* m_blockchain_based_list_need_update when idx is above its height, and is
\* left as it was with its flag when idx is at or below its height and it
\* has nothing to store.
C21_ReplayKeepsStakes ==
  [][\A k \in Replayed :
       /\ StakeSideKept(BeforeBlock(k), AfterBlock(k))
       /\ (k > block_height(BeforeBlock(k).m_blockchain_based_list))
            => ListSideApplied(BeforeBlock(k), AfterBlock(k), k)
       /\ (/\ k <= block_height(BeforeBlock(k).m_blockchain_based_list)
           /\ ~List_need_store(BeforeBlock(k).m_blockchain_based_list))
            => ListSideKept(BeforeBlock(k), AfterBlock(k))]_vars

\* a synchronize() that handed a block to the list without recording it in
\* the stake storage: a replayed block
C21_Witness ==
  /\ last.op = "sync"
  /\ \E a \in DOMAIN last.events :
       /\ last.events[a].ev = "apply_block"
       /\ \A b \in DOMAIN last.events :
            ~(/\ last.events[b].ev = "add_last_processed_block"
              /\ last.events[b].idx = last.events[a].idx)
       /\ block_height(stp.m_blockchain_based_list) >= last.events[a].idx
       /\ get_last_processed_block_index(stp.m_storage) >= last.events[a].idx

\* ---------------------------------------------------------------------
\* Threads and the two locks
\* ---------------------------------------------------------------------

\* the oracle of the threaded model holds at most ThreadHeight blocks
ThreadHeight == 2

\* the entry points that take m_storage_lock alone (CRITICAL_REGION_LOCAL1)
EntryPoints ==
  {"find_supernode_stake", "init_storages",
   "set_on_update_stakes_handler", "set_on_update_blockchain_based_list_handler",
   "invoke_update_stakes_handler", "invoke_update_blockchain_based_list_handler"}

\* a lock that lets every thread in
lock_free_always(owner) == TRUE

\* a lock can be taken by a thread when no thread owns it
lock_free(owner) == owner = "none"

\* what the entry point does to the processor once it holds the lock
entry_point_body(p, o, call) ==
  CASE call = "find_supernode_stake" -> find_supernode_stake(p, 1, 1).stp
    [] call = "init_storages" -> init_storages(p, "dir1").stp
    [] call = "set_on_update_stakes_handler" ->
         [p EXCEPT !.m_on_stakes_update = TRUE]
    [] call = "set_on_update_blockchain_based_list_handler" ->
         [p EXCEPT !.m_on_blockchain_based_list_update = TRUE]
    [] call = "invoke_update_stakes_handler" ->
         invoke_update_stakes_handler(p, o, TRUE, HandlersOk).stp
    [] call = "invoke_update_blockchain_based_list_handler" ->
         invoke_update_blockchain_based_list_handler(p, o, TRUE, 1,
                                                     HandlersOk).stp
    [] OTHER -> p

\* a thread calls synchronize(): std::lock starts with one of the two locks
SyncCall ==
  /\ thr.pc["sync"] = "idle"
  /\ thr' = [thr EXCEPT !.pc["sync"] = "lock_storage",
                        !.call["sync"] = "synchronize"]
  /\ UNCHANGED <<chain, hf, stp, last, scn>>

\* std::lock, line 554: it waits for one lock ...
SyncLockFirst ==
  \/ /\ thr.pc["sync"] = "lock_storage"
     /\ lock_free(thr.storage_owner)
     /\ thr' = [thr EXCEPT !.pc["sync"] = "try_blockchain",
                           !.storage_owner = "sync"]
     /\ UNCHANGED <<chain, hf, stp, last, scn>>
  \/ /\ thr.pc["sync"] = "lock_blockchain"
     /\ lock_free(thr.blockchain_owner)
     /\ thr' = [thr EXCEPT !.pc["sync"] = "try_storage",
                           !.blockchain_owner = "sync"]
     /\ UNCHANGED <<chain, hf, stp, last, scn>>

\* ... and tries the other: when that one is taken it gives the first one
\* back and waits for the other
SyncTrySecond ==
  \/ /\ thr.pc["sync"] = "try_blockchain"
     /\ thr' = IF lock_free(thr.blockchain_owner)
               THEN [thr EXCEPT !.pc["sync"] = "in",
                                !.blockchain_owner = "sync"]
               ELSE [thr EXCEPT !.pc["sync"] = "lock_blockchain",
                                !.storage_owner = "none"]
     /\ UNCHANGED <<chain, hf, stp, last, scn>>
  \/ /\ thr.pc["sync"] = "try_storage"
     /\ thr' = IF lock_free(thr.storage_owner)
               THEN [thr EXCEPT !.pc["sync"] = "in",
                                !.storage_owner = "sync"]
               ELSE [thr EXCEPT !.pc["sync"] = "lock_storage",
                                !.blockchain_owner = "none"]
     /\ UNCHANGED <<chain, hf, stp, last, scn>>

\* the body of synchronize(), lines 556-665, and the release of both locks
\* at its end
SyncBody ==
  /\ thr.pc["sync"] = "in"
  /\ \E r \in {synchronize(stp, Oracle(chain, hf, NoFault), HandlersOk)} :
       /\ stp' = Unlogged(r.stp)
       /\ last' = Op("sync")
  /\ thr' = [thr EXCEPT !.pc["sync"] = "idle", !.call["sync"] = "",
                        !.storage_owner = "none",
                        !.blockchain_owner = "none"]
  /\ UNCHANGED <<chain, hf, scn>>

\* a thread calls one of the other entry points
EntryCall ==
  \E t \in Callers, call \in EntryPoints :
    /\ thr.pc[t] = "idle"
    /\ thr' = [thr EXCEPT !.pc[t] = "lock_storage", !.call[t] = call]
    /\ UNCHANGED <<chain, hf, stp, last, scn>>

\* CRITICAL_REGION_LOCAL1(m_storage_lock)
EntryLock ==
  \E t \in Callers :
    /\ thr.pc[t] = "lock_storage"
    /\ lock_free(thr.storage_owner)
    /\ thr' = [thr EXCEPT !.pc[t] = "in", !.storage_owner = t]
    /\ UNCHANGED <<chain, hf, stp, last, scn>>

\* the body of the entry point and the end of its critical region
EntryBody ==
  \E t \in Callers :
    /\ thr.pc[t] = "in"
    /\ stp' = entry_point_body(stp, Oracle(chain, hf, NoFault), thr.call[t])
    /\ last' = Op(thr.call[t])
    /\ thr' = [thr EXCEPT !.pc[t] = "idle", !.call[t] = "",
                          !.storage_owner = "none"]
    /\ UNCHANGED <<chain, hf, scn>>

\* the node takes the lock of the blockchain ...
ChainLock ==
  /\ thr.pc["chain"] = "idle"
  /\ lock_free(thr.blockchain_owner)
  /\ thr' = [thr EXCEPT !.pc["chain"] = "in", !.blockchain_owner = "chain"]
  /\ UNCHANGED <<chain, hf, stp, last, scn>>

\* ... adds a block, takes one off or leaves the chain alone, and releases it
ChainUnlock ==
  /\ thr.pc["chain"] = "in"
  /\ \/ Len(chain) < ThreadHeight /\ chain' = Append(chain, 0)
     \/ Len(chain) > 1 /\ chain' = SubSeq(chain, 1, Len(chain) - 1)
     \/ chain' = chain
  /\ thr' = [thr EXCEPT !.pc["chain"] = "idle", !.blockchain_owner = "none"]
  /\ UNCHANGED <<hf, stp, last, scn>>

NextThreads ==
  \/ SyncCall \/ SyncLockFirst \/ SyncTrySecond \/ SyncBody
  \/ EntryCall \/ EntryLock \/ EntryBody
  \/ ChainLock \/ ChainUnlock

SpecThreads == InitDisq /\ [][NextThreads]_vars

\* the threads inside code that reads or writes the storages, the observer
\* slots or the need-update flags
Inside == {t \in Threads \ {"chain"} : thr.pc[t] = "in"}

\* the thread has the step it is at open to it
CanStep(t) ==
  CASE thr.pc[t] = "lock_storage"    -> lock_free(thr.storage_owner)
    [] thr.pc[t] = "lock_blockchain" -> lock_free(thr.blockchain_owner)
    [] thr.pc[t] = "idle"            -> FALSE
    [] OTHER                         -> TRUE

\* some thread that is inside a call can go on, without any new call
NoDeadlock ==
  (\E t \in Threads : thr.pc[t] # "idle")
    => (\E t \in Threads : thr.pc[t] # "idle" /\ CanStep(t))

LocksHeld ==
  /\ (thr.pc["sync"] = "in")
       => (thr.storage_owner = "sync" /\ thr.blockchain_owner = "sync")
  /\ \A t \in Callers :
       (thr.pc[t] = "in")
         => (thr.storage_owner = t /\ thr.blockchain_owner # t)

\* C22: with one thread in synchronize(), other threads in
\* find_supernode_stake, set_on_*_handler, invoke_update_* and init_storages
\* and the node taking and releasing the lock of the blockchain, no
\* interleaving deadlocks; synchronize holds the storage lock and the
\* blockchain lock for its whole body, every other entry point the storage
\* lock alone, and no two threads are inside code that uses the storages,
\* the observer slots or the need-update flags at the same time.
C22_LocksExclude ==
  /\ NoDeadlock
  /\ LocksHeld
  /\ Cardinality(Inside) <= 1

\* synchronize() is in its body with both locks while the two other threads
\* wait for the storage lock and the node waits outside
C22_Witness ==
  /\ thr.pc["sync"] = "in"
  /\ \A t \in Callers : thr.pc[t] = "lock_storage"
  /\ thr.storage_owner = "sync" /\ thr.blockchain_owner = "sync"
  /\ stp.m_storage.present

\* ---------------------------------------------------------------------
\* The need-update flag of the list and the calls of its observer
\* ---------------------------------------------------------------------

ListFlagCleared ==
  /\ stp.m_blockchain_based_list_need_update
  /\ ~stp'.m_blockchain_based_list_need_update

\* the list observer was called with the snapshot at the tip of the list
TipNotified ==
  /\ last'.bcalls # <<>>
  /\ last'.bcalls[1].depth = 0
  /\ last'.bcalls[1].block_height
       = block_height(stp'.m_blockchain_based_list)
  /\ last'.bcalls[1].tiers = tiers(stp'.m_blockchain_based_list, 0)

\* C23: m_blockchain_based_list_need_update never goes from true to false
\* without a notification: the step that clears it calls the list observer
\* at least once, with the snapshot at the tip, also when synchronize()
\* applied no block in this pass and when
\* invoke_update_blockchain_based_list_handler is called with depth 0.
C23_ClearedOnlyNotified == [][ListFlagCleared => TipNotified]_vars

\* the same for the notifications that ask for one snapshot at least
ClearedOnlyNotifiedFromDepthOne ==
  [][(/\ ListFlagCleared
      /\ last'.op = "invoke_list"
      /\ last'.depth >= 1) => TipNotified]_vars

\* ---------------------------------------------------------------------
\* Progress of repeated synchronize() calls against a resting oracle
\* ---------------------------------------------------------------------

\* synchronize() is called with nobody else at the locks: std::lock
\* (line 554) gets both
ProgressCall ==
  /\ thr.pc["sync"] = "idle"
  /\ thr' = [thr EXCEPT !.pc["sync"] = "in",
                        !.call["sync"] = "synchronize",
                        !.storage_owner = "sync",
                        !.blockchain_owner = "sync"]
  /\ UNCHANGED <<chain, hf, stp, last, scn>>

\* the body of synchronize(), lines 556-665, and the release of both locks
ProgressBody ==
  /\ thr.pc["sync"] = "in"
  /\ \E r \in {synchronize(stp, Oracle(chain, hf, NoFault), HandlersOk)} :
       /\ stp' = Unlogged(r.stp)
       /\ last' = [Op("sync") EXCEPT !.status = r.status,
                                     !.reached = r.reached,
                                     !.capped = r.capped]
  /\ thr' = NoThreads
  /\ UNCHANGED <<chain, hf, scn>>

\* the oracle changes under its lock, which synchronize() holds for its
\* whole body
ProgressAppend == thr.blockchain_owner = "none" /\ AppendCore
ProgressPop == thr.blockchain_owner = "none" /\ OraclePop

NextProgress == ProgressAppend \/ ProgressPop \/ ProgressCall \/ ProgressBody

\* WF_vars(ProgressBody), written out: the body is enabled exactly when the
\* thread is in it, and its step takes the thread out of it
BodyReturns == []<>(thr.pc["sync"] # "in")

\* synchronize() is called again and again, and every call returns (the
\* loops of the body are bounded, lines 570-601 and 611-642)
SpecProgress ==
  Init /\ [][NextProgress]_vars /\ WF_vars(ProgressCall) /\ BodyReturns

\* the oracle has a block and the stake processing version is in force at
\* its top
ForkInForce ==
  /\ Len(chain) >= 1
  /\ get_hard_fork_version(Oracle(chain, hf, NoFault), Len(chain) - 1)
       >= STAKE_TRANSACTION_PROCESSING_DB_VERSION

\* both storages end at the top of the oracle and the processed chain
\* carries the oracle's hashes
AtTip ==
  /\ stp.m_storage.present
  /\ stp.m_blockchain_based_list.present
  /\ get_last_processed_block_index(stp.m_storage) = Len(chain) - 1
  /\ block_height(stp.m_blockchain_based_list) = Len(chain) - 1
  /\ \A k \in DOMAIN stp.m_storage.chain :
       /\ stp.m_storage.chain[k].idx < Len(chain)
       /\ stp.m_storage.chain[k].hash
            = block_hash_of(chain, stp.m_storage.chain[k].idx)

\* the oracle rests from some point on, with the version in force
OracleRests == <>[][chain' = chain]_vars /\ <>[]ForkInForce

EventuallyAtTip == OracleRests => <>[]AtTip

\* a call of synchronize() returns, with the version in force
SyncReturnsInForce ==
  thr.pc["sync"] = "in" /\ thr'.pc["sync"] = "idle" /\ ForkInForce

\* a synchronize() at the tip leaves the storages as they are
TipKept ==
  (SyncReturnsInForce /\ AtTip)
    => (/\ Content(stp') = Content(stp)
        /\ stp'.m_storage.disk = stp.m_storage.disk
        /\ stp'.m_blockchain_based_list.disk
             = stp.m_blockchain_based_list.disk)

\* a synchronize() that did not get to the height moved the last processed
\* index up
IndexRaised ==
  (SyncReturnsInForce /\ ~last'.reached)
    => (get_last_processed_block_index(stp'.m_storage)
          > get_last_processed_block_index(stp.m_storage))

\* C24: when the oracle rests at height H with the version in force at H - 1
\* and answers every question, repeated synchronize() calls bring the stake
\* storage and the list to H - 1 with the processed chain carrying the
\* oracle's hashes, every later synchronize() leaves that state as it is,
\* and every call that did not get to H raises the last processed index.
C24_Progress == EventuallyAtTip /\ [][TipKept /\ IndexRaised]_vars

\* the smaller of the last processed index and the height of the list: the
\* loop over the new blocks starts one above it (lines 605-608)
ProcessedBySides(p) ==
  IF get_last_processed_block_index(p.m_storage)
       > block_height(p.m_blockchain_based_list)
  THEN block_height(p.m_blockchain_based_list)
  ELSE get_last_processed_block_index(p.m_storage)

\* a synchronize() that did not get to the height and took no block back
\* kept the last processed index and moved the slower of the two storages up
IndexRaisedWithoutRollback ==
  (SyncReturnsInForce /\ ~last'.reached /\ ~Unrolled(stp, stp'))
    => (/\ get_last_processed_block_index(stp'.m_storage)
             >= get_last_processed_block_index(stp.m_storage)
        /\ ProcessedBySides(stp') > ProcessedBySides(stp))

\* C24, amended: as C24_Progress, with the last part for the calls that take
\* no block back: such a call that did not get to H keeps the last processed
\* index and raises the smaller of the last processed index and the list
\* height; a call that first takes blocks of a left branch back can end
\* with a last processed index at or below the one it started with.
C24_ProgressWithoutRollback ==
  EventuallyAtTip /\ [][TipKept /\ IndexRaisedWithoutRollback]_vars

\* the tip is reached over more than one call: more blocks than one call
\* applies
C24_Witness ==
  /\ AtTip /\ ForkInForce
  /\ last.op = "sync" /\ last.reached
  /\ Len(chain) >= MAX_ITERATIONS_COUNT + 2

====
